---- MODULE Spec2Model ----
(***************************************************************************)
(* Re:Search retrieval and research core.                                  *)
(*                                                                         *)
(* Part 1: the graph store (backend/db) with its lexical and vector        *)
(* shadow tables, and the ingestion pipeline that writes them.             *)
(* Part 2: the web-search provider chain (backend/agent/search_providers). *)
(* Part 3: the research agent loop (backend/agent/nodes, graph, runner).   *)
(***************************************************************************)
EXTENDS Integers, FiniteSets, Sequences, Bags, TLC

(***************************************************************************)
(* Bounds of the model.                                                    *)
(***************************************************************************)
MaxIds == 3
MaxTime == 1
MaxOps == 4
MaxChunks == 2

NodeIds == 1..MaxIds
Times == 0..MaxTime
NULL == "NULL"

Titles == {"A", "B"}
NodeTypes == {"Concept", "Source"}
ContentPaths == {NULL, "content/a.md"}
Relations == {"related", "has_chunk"}

(***************************************************************************)
(* Python-side metadata values and their JSON text.                        *)
(***************************************************************************)
PyNone == [type |-> "NoneType"]
PyEmptyDict == [type |-> "dict"]
PyDictK == [type |-> "dict", k |-> "v"]
UserMetadata == {PyNone, PyEmptyDict, PyDictK}

\* "k": True inside **kwargs of update_node that is not a column name
UpdateKeys == {"title", "node_type", "content_path", "metadata", "id"}

json_dumps(v) ==
    IF v.type = "NoneType" THEN [type |-> "null"]
    ELSE [f \in DOMAIN v |-> IF f = "type" THEN "object" ELSE v[f]]

json_loads(j) ==
    IF j.type = "null" THEN PyNone
    ELSE [f \in DOMAIN j |-> IF f = "type" THEN "dict" ELSE j[f]]

\* truthiness of `metadata or {}` in create_node
Truthy(v) == v.type = "dict" /\ DOMAIN v # {"type"}

VARIABLES
    nodes,      \* table nodes: id -> row
    edges,      \* table edges: set of rows
    nodes_fts,  \* lexical shadow table: bag of rows (id, title, content_body)
    nodes_vec,  \* vector shadow table: id -> embedding
    clock,      \* int(time())
    used,       \* ids that have ever been a primary key of nodes
    last,       \* outcome of the last store call: what was called, and whether it raised
    nops,       \* number of store calls made so far
    ing,        \* the ingestion in flight: position in ingest_url and its locals
    ingested,   \* ids of the Chunk nodes created by ingestions that returned
    srch,       \* the SearchProviderChain.search call in flight and its settings
    state,      \* ResearchState of the research run
    run,        \* run_research: the graph node to execute next, and the settings of the run
    reply       \* the last read-only call: its arguments and what it returned

storeVars == <<nodes, edges, nodes_fts, nodes_vec, clock, used, last, nops>>
ingVars == <<ing, ingested>>
chainVars == <<srch>>
agentVars == <<state, run>>
callVars == <<reply>>

DB == [nodes |-> nodes, edges |-> edges, nodes_fts |-> nodes_fts, nodes_vec |-> nodes_vec]

EmptyDB == [nodes |-> <<>>, edges |-> {}, nodes_fts |-> EmptyBag, nodes_vec |-> <<>>]

(***************************************************************************)
(* Connection settings.                                                    *)
(***************************************************************************)
\* the connection without PRAGMA foreign_keys = ON
foreign_keys_off == FALSE

foreign_keys == TRUE

(***************************************************************************)
(* Schema: constraints, cascades and triggers of schema.sql.               *)
(***************************************************************************)
FtsRowsOf(fts, id) == {r \in DOMAIN fts : r.id = id}

FtsCount(fts, id) ==
    LET S == FtsRowsOf(fts, id)
    IN  IF S = {} THEN 0 ELSE BagCardinality([r \in S |-> fts[r]])

\* apply f to every row of the bag, adding up the copies of rows that coincide
FtsMap(fts, f(_)) ==
    LET img == {f(r) : r \in DOMAIN fts}
    IN  [n \in img |-> BagCardinality([r \in {x \in DOMAIN fts : f(x) = n} |-> fts[r]])]

\* nodes_ai: AFTER INSERT ON nodes, insert (id, title, '') into nodes_fts
nodes_ai(db, row) ==
    [db EXCEPT !.nodes_fts =
        @ (+) SetToBag({[id |-> row.id, title |-> row.title, content_body |-> ""]})]

\* nodes_ad: AFTER DELETE ON nodes, delete the rows of old.id from nodes_fts
nodes_ad(db, id) ==
    [db EXCEPT !.nodes_fts = [r \in DOMAIN @ \ FtsRowsOf(@, id) |-> @[r]]]

\* nodes_au: AFTER UPDATE ON nodes, keep the title of the lexical row in step
nodes_au(db, id) ==
    LET t == db.nodes[id].title
        f(r) == IF r.id = id THEN [r EXCEPT !.title = t] ELSE r
    IN  [db EXCEPT !.nodes_fts = FtsMap(@, f)]

\* edges.source_id / target_id REFERENCES nodes(id) ON DELETE CASCADE
EdgesOnDeleteCascade(db, id) ==
    IF foreign_keys
    THEN [db EXCEPT !.edges = {e \in @ : e.source_id # id /\ e.target_id # id}]
    ELSE db

EdgesForeignKeyOk(db, s, t) ==
    foreign_keys => (s \in DOMAIN db.nodes /\ t \in DOMAIN db.nodes)

\* UNIQUE(source_id, target_id, relation_type)
EdgesUniqueConflict(db, s, t, r) ==
    \E e \in db.edges : e.source_id = s /\ e.target_id = t /\ e.relation_type = r

(***************************************************************************)
(* backend/db/nodes.py and backend/db/edges.py.  Every operation returns   *)
(* the store after the call and the exception it raised ("" when none):    *)
(* `with conn:` commits on success and rolls back on an exception.         *)
(***************************************************************************)
Ok(db) == [db |-> db, raised |-> ""]
Raise(db, exc) == [db |-> db, raised |-> exc]

get_node(db, id) ==
    IF id \in DOMAIN db.nodes
    THEN [db.nodes[id] EXCEPT !.metadata = json_loads(@)]
    ELSE PyNone

create_node(db, title, node_type, metadata, content_path, nid, now) ==
    LET row == [id |-> nid, node_type |-> node_type, title |-> title,
                content_path |-> content_path,
                metadata |-> json_dumps(IF Truthy(metadata) THEN metadata ELSE PyEmptyDict),
                created_at |-> now, updated_at |-> now]
    IN  IF nid \in DOMAIN db.nodes
        THEN Raise(db, "IntegrityError")
        ELSE Ok(nodes_ai([db EXCEPT !.nodes =
                 [i \in DOMAIN @ \cup {nid} |-> IF i = nid THEN row ELSE @[i]]], row))

\* update_node that skips the keywords it does not know instead of rejecting the call
update_node_skip_unknown(db, id, kwargs, now) ==
    LET allowed == {"title", "node_type", "content_path", "metadata"}
        given == DOMAIN kwargs \cap allowed
        updates == [k \in given \cup {"updated_at"} |->
                       IF k = "updated_at" THEN now
                       ELSE IF k = "metadata" THEN json_dumps(kwargs[k])
                       ELSE kwargs[k]]
        old == db.nodes[id]
        new == [c \in DOMAIN old |-> IF c \in DOMAIN updates THEN updates[c] ELSE old[c]]
    IN  IF get_node(db, id) = PyNone THEN Raise(db, "ValueError: not found")
        ELSE IF given = {} THEN Raise(db, "ValueError: no valid fields")
        ELSE Ok(nodes_au([db EXCEPT !.nodes[id] = new], id))

\* kwargs: a function from the keyword names given to their values
update_node(db, id, kwargs, now) ==
    LET allowed == {"title", "node_type", "content_path", "metadata"}
        updates == [k \in DOMAIN kwargs \cup {"updated_at"} |->
                       IF k = "updated_at" THEN now
                       ELSE IF k = "metadata" THEN json_dumps(kwargs[k])
                       ELSE kwargs[k]]
        old == db.nodes[id]
        new == [c \in DOMAIN old |-> IF c \in DOMAIN updates THEN updates[c] ELSE old[c]]
    IN  IF get_node(db, id) = PyNone THEN Raise(db, "ValueError: not found")
        ELSE IF \E k \in DOMAIN kwargs : k \notin allowed
             THEN Raise(db, "ValueError: cannot update field")
        ELSE IF DOMAIN kwargs = {} THEN Raise(db, "ValueError: no valid fields")
        ELSE Ok(nodes_au([db EXCEPT !.nodes[id] = new], id))

delete_node(db, id) ==
    IF id \in DOMAIN db.nodes
    THEN Ok(nodes_ad(EdgesOnDeleteCascade(
             [db EXCEPT !.nodes = [i \in DOMAIN @ \ {id} |-> @[i]]], id), id))
    ELSE Ok(db)

\* connect_nodes written with INSERT OR REPLACE: the conflicting row is rewritten
connect_nodes_or_replace(db, s, t, r, now) ==
    IF ~EdgesForeignKeyOk(db, s, t) THEN Raise(db, "IntegrityError")
    ELSE Ok([db EXCEPT !.edges =
               {e \in @ : ~(e.source_id = s /\ e.target_id = t /\ e.relation_type = r)} \cup
               {[source_id |-> s, target_id |-> t, relation_type |-> r, created_at |-> now]}])

connect_nodes(db, s, t, r, now) ==
    IF EdgesUniqueConflict(db, s, t, r) THEN Ok(db)
    ELSE IF ~EdgesForeignKeyOk(db, s, t) THEN Raise(db, "IntegrityError")
    ELSE Ok([db EXCEPT !.edges = @ \cup
               {[source_id |-> s, target_id |-> t, relation_type |-> r, created_at |-> now]}])

get_edges(db, id) == {e \in db.edges : e.source_id = id \/ e.target_id = id}

(***************************************************************************)
(* backend/rag/ingestor.py: the statements of ingest_url, one per          *)
(* transaction (`with conn:` block).                                       *)
(***************************************************************************)
\* the body written with INSERT INTO nodes_fts(id, content_body) instead of UPDATE
insert_fts_body(db, id, body) ==
    Ok([db EXCEPT !.nodes_fts =
           @ (+) SetToBag({[id |-> id, title |-> "", content_body |-> body]})])

\* UPDATE nodes_fts SET content_body = ? WHERE id = ?
update_fts_body(db, id, body) ==
    LET f(r) == IF r.id = id THEN [r EXCEPT !.content_body = body] ELSE r
    IN  Ok([db EXCEPT !.nodes_fts = FtsMap(@, f)])

\* INSERT OR REPLACE INTO nodes_vec(id, embedding) VALUES (?, ?)
upsert_vec(db, id, embedding) ==
    Ok([db EXCEPT !.nodes_vec =
           [i \in DOMAIN @ \cup {id} |-> IF i = id THEN embedding ELSE @[i]]])

SourceMetadata(url) == [type |-> "dict", url |-> url]
\* the metadata with the chunks counted from one
ChunkMetadata_from_one(source_id, i, text) ==
    [type |-> "dict", source_id |-> source_id, chunk_index |-> i + 1, text |-> text]

\* lines 96-100
ChunkMetadata(source_id, i, text) ==
    [type |-> "dict", source_id |-> source_id, chunk_index |-> i, text |-> text]

ChunkText(i) == IF i = 0 THEN "chunk0" ELSE "chunk"
\* the extracted text of the page, which chunk_text cuts into the chunks above
FullText == "chunk0 chunk"
embed_text(text) == <<Len(text)>>

(***************************************************************************)
(* The store as a state machine: one action per call.                      *)
(***************************************************************************)
Commit(res, call) ==
    /\ nodes' = res.db.nodes
    /\ edges' = res.db.edges
    /\ nodes_fts' = res.db.nodes_fts
    /\ nodes_vec' = res.db.nodes_vec
    /\ used' = used \cup DOMAIN res.db.nodes
    /\ last' = [op |-> call, raised |-> res.raised, changed |-> res.db # DB,
                edges_deleted |-> Cardinality(edges \ res.db.edges)]
    /\ nops' = nops + 1

NoCall == [op |-> "none", raised |-> "", changed |-> FALSE, edges_deleted |-> 0]

InitStore ==
    /\ nodes = <<>>
    /\ edges = {}
    /\ nodes_fts = EmptyBag
    /\ nodes_vec = <<>>
    /\ clock = 0
    /\ used = {}
    /\ last = NoCall
    /\ nops = 0

Idle == [pc |-> "idle", source |-> 0, total |-> 0, i |-> 0, chunk |-> 0, made |-> {}]

InitIngest ==
    /\ ing = Idle
    /\ ingested = {}

\* time passes between two calls
Tick ==
    /\ clock < MaxTime
    /\ clock' = clock + 1
    /\ UNCHANGED <<nodes, edges, nodes_fts, nodes_vec, used, last, nops>>
    /\ UNCHANGED <<ingVars, chainVars, agentVars, callVars>>

\* uuid4() when the ids of usd are taken: ids are opaque to the store, so the
\* least id that was never used stands for all of them
fresh_id(usd) == CHOOSE nid \in NodeIds \ usd : \A o \in NodeIds \ usd : nid <= o

uuid4 == fresh_id(used)

\* create_node without node_id
CreateNode ==
    /\ nops < MaxOps
    /\ NodeIds \ used # {}
    /\ Commit(create_node(DB, "A", "Concept", PyDictK, NULL, uuid4, clock), "create_node")
    /\ UNCHANGED <<clock, ingVars, chainVars, agentVars, callVars>>

\* create_node with an explicit node_id: the id of an existing or of a deleted node
CreateNodeWithId ==
    /\ nops < MaxOps
    /\ \E nid \in used :
          Commit(create_node(DB, "A", "Concept", PyNone, NULL, nid, clock), "create_node")
    /\ UNCHANGED <<clock, ingVars, chainVars, agentVars, callVars>>

\* the value passed for keyword k; "id" stands for any name that is not an updatable column
KwargValue(k, t, ty, p, m) ==
    CASE k = "title" -> t
      [] k = "node_type" -> ty
      [] k = "content_path" -> p
      [] k = "metadata" -> m
      [] OTHER -> "x"

Kwargs(keys, m) == [k \in keys |-> KwargValue(k, "B", "Source", "content/a.md", m)]

\* the keyword sets of the update_node calls that are made
UpdateCalls ==
    {{}, {"title"}, {"metadata"}, {"node_type", "content_path"}, {"id"}, {"title", "id"}}

UpdateNode ==
    /\ nops < MaxOps
    /\ \E id \in NodeIds, keys \in UpdateCalls :
          Commit(update_node(DB, id, Kwargs(keys, PyNone), clock), "update_node")
    /\ UNCHANGED <<clock, ingVars, chainVars, agentVars, callVars>>

DeleteNode ==
    /\ nops < MaxOps
    /\ \E id \in NodeIds : Commit(delete_node(DB, id), "delete_node")
    /\ UNCHANGED <<clock, ingVars, chainVars, agentVars, callVars>>

ConnectNodes ==
    /\ nops < MaxOps
    /\ \E s \in NodeIds, t \in NodeIds, r \in Relations :
          Commit(connect_nodes(DB, s, t, r, clock), "connect_nodes")
    /\ UNCHANGED <<clock, ingVars, chainVars, agentVars, callVars>>

(***************************************************************************)
(* ingest_url as a process: one action per transaction, so that the calls  *)
(* of other tasks on the same store can fall between two of them.          *)
(***************************************************************************)
CommitIngest(res) ==
    /\ nodes' = res.db.nodes
    /\ edges' = res.db.edges
    /\ nodes_fts' = res.db.nodes_fts
    /\ nodes_vec' = res.db.nodes_vec
    /\ used' = used \cup DOMAIN res.db.nodes
    /\ UNCHANGED <<clock, last, nops>>

IngestEnded == ing.pc \in {"idle", "done", "raised"}

\* fetch_url or extract_content raises: nothing is written
IngestFetchFails ==
    /\ ing.pc \in {"idle", "done"}
    /\ ing' = [Idle EXCEPT !.pc = "raised"]
    /\ UNCHANGED <<storeVars, ingested, chainVars, agentVars, callVars>>

\* steps 1-3: fetch, extract, create the Source node; total = len(chunks)
IngestCreateSource ==
    /\ IngestEnded
    /\ \E nid \in NodeIds \ used, total \in 0..MaxChunks :
          /\ total < Cardinality(NodeIds \ used)
          /\ CommitIngest(create_node(DB, "A", "Source", SourceMetadata("u"), NULL, nid, clock))
          /\ ing' = [Idle EXCEPT !.pc = "source_fts", !.source = nid, !.total = total]
    /\ UNCHANGED <<ingested, chainVars, agentVars, callVars>>

\* step 4: the full text goes into the lexical row of the source
IngestSourceFts ==
    /\ ing.pc = "source_fts"
    /\ CommitIngest(update_fts_body(DB, ing.source, FullText))
    /\ ing' = [ing EXCEPT !.pc = IF ing.total = 0 THEN "done" ELSE "embed"]
    /\ UNCHANGED <<ingested, chainVars, agentVars, callVars>>

\* step 6: embed_text raises, and ingest_url with it
IngestEmbedFails ==
    /\ ing.pc = "embed"
    /\ ing' = [ing EXCEPT !.pc = "raised"]
    /\ UNCHANGED <<storeVars, ingested, chainVars, agentVars, callVars>>

\* steps 6-7: embed the chunk and create its Chunk node
IngestCreateChunk ==
    /\ ing.pc = "embed"
    /\ \E nid \in NodeIds \ used :
          /\ CommitIngest(create_node(DB, "A", "Chunk",
                 ChunkMetadata(ing.source, ing.i, ChunkText(ing.i)), NULL, nid, clock))
          /\ ing' = [ing EXCEPT !.pc = "chunk_fts", !.chunk = nid, !.made = @ \cup {nid}]
    /\ UNCHANGED <<ingested, chainVars, agentVars, callVars>>

IngestChunkFts ==
    /\ ing.pc = "chunk_fts"
    /\ CommitIngest(update_fts_body(DB, ing.chunk, ChunkText(ing.i)))
    /\ ing' = [ing EXCEPT !.pc = "chunk_vec"]
    /\ UNCHANGED <<ingested, chainVars, agentVars, callVars>>

IngestChunkVec ==
    /\ ing.pc = "chunk_vec"
    /\ CommitIngest(upsert_vec(DB, ing.chunk, embed_text(ChunkText(ing.i))))
    /\ ing' = [ing EXCEPT !.pc = "chunk_edge"]
    /\ UNCHANGED <<ingested, chainVars, agentVars, callVars>>

\* step 8: the has_chunk edge; after the last chunk ingest_url returns
IngestChunkEdge ==
    /\ ing.pc = "chunk_edge"
    /\ LET res == connect_nodes(DB, ing.source, ing.chunk, "has_chunk", clock)
           more == ing.i + 1 < ing.total
       IN  /\ CommitIngest(res)
           /\ ing' = [ing EXCEPT !.pc = IF res.raised # "" THEN "raised"
                                        ELSE IF more THEN "embed" ELSE "done",
                                 !.i = @ + 1]
           /\ ingested' = IF res.raised = "" /\ ~more THEN ingested \cup ing.made
                          ELSE ingested
    /\ UNCHANGED <<chainVars, agentVars, callVars>>

(***************************************************************************)
(* backend/agent/search_providers.py.  A provider's search either returns  *)
(* a list of URLs or lets an exception escape.  The values that            *)
(* resp.json() and DDGS.text() hand back are Python values: dicts, lists,  *)
(* strings and None.                                                       *)
(***************************************************************************)
MaxProviders == 3
MaxRetries == 2

Returns(urls) == [urls |-> urls, raised |-> ""]
Raises(exc) == [urls |-> <<>>, raised |-> exc]

PyList(items) == [type |-> "list", items |-> items]
PyStr(s) == [type |-> "str", s |-> s]

\* d.get(k, default) on a dict
dict_get(d, k, default) == IF k \in DOMAIN d THEN d[k] ELSE default

\* the outcome of an HTTP exchange: the exception of the transport, or a
\* status and a body; the body is the value its JSON text denotes
NotJson == [type |-> "invalid"]
Response(status, body) == [exc |-> "", status |-> status, body |-> body]
TransportErrors ==
    {[exc |-> e, status |-> 0, body |-> NotJson] : e \in {"ConnectError", "ReadTimeout"}}

raise_for_status(resp) == resp.status >= 400

BraveBodies ==
    { [type |-> "dict",
       web |-> [type |-> "dict",
                results |-> PyList(<<[type |-> "dict", url |-> "u1"],
                                     [type |-> "dict", title |-> "t"],
                                     [type |-> "dict", url |-> "u2"]>>)]],
      [type |-> "dict", web |-> [type |-> "dict", results |-> PyList(<<>>)]],
      PyEmptyDict,
      [type |-> "dict", web |-> PyNone],
      [type |-> "dict", web |-> [type |-> "dict", results |-> PyNone]],
      [type |-> "dict", web |-> [type |-> "dict", results |-> PyList(<<PyStr("u1")>>)]],
      PyList(<<>>) }

BraveResponses ==
    TransportErrors \cup {Response(503, NotJson), Response(200, NotJson)}
        \cup {Response(200, b) : b \in BraveBodies}

\* item.get("url") is truthy
BraveHasUrl(item) == dict_get(item, "url", "") # ""

\* lines 107-111: the list comprehension over data["web"]["results"]
BraveParse(data) ==
    IF data.type # "dict" THEN Raises("AttributeError")
    ELSE LET web == dict_get(data, "web", PyEmptyDict)
         IN  IF web.type # "dict" THEN Raises("AttributeError")
             ELSE LET results == dict_get(web, "results", PyList(<<>>))
                  IN  IF results.type # "list" THEN Raises("TypeError")
                      ELSE IF \E i \in DOMAIN results.items : results.items[i].type # "dict"
                           THEN Raises("AttributeError")
                      ELSE LET hits == SelectSeq(results.items, BraveHasUrl)
                           IN  Returns([i \in DOMAIN hits |-> hits[i].url])

\* lines 85-114: the request and resp.json() are inside the try block, the parsing is not
BraveSearchProvider_search(api_key, resp) ==
    IF api_key = "" THEN Returns(<<>>)
    ELSE IF resp.exc # "" \/ raise_for_status(resp) \/ resp.body = NotJson THEN Returns(<<>>)
    ELSE BraveParse(resp.body)

SEARXNG_FALLBACK_INSTANCES ==
    <<"https://search.bus-hit.me", "https://searx.be", "https://paulgo.io",
      "https://searx.tiekoetter.com">>

\* settings.searxng_base_url
SearxngBaseUrls == {"http://localhost:8080", "https://searx.be/"}

\* str.rstrip("/") on the base URLs above
rstrip_slash(u) == IF u = "https://searx.be/" THEN "https://searx.be" ELSE u

\* lines 169-172: the primary instance, then the fallbacks that differ from it
SearXNGInstances(base_url) ==
    LET primary == rstrip_slash(base_url)
        differs(u) == rstrip_slash(u) # primary
    IN  <<primary>> \o SelectSeq(SEARXNG_FALLBACK_INSTANCES, differs)

SearxBodies ==
    { [type |-> "dict",
       results |-> PyList(<<[type |-> "dict", url |-> "u1"],
                            [type |-> "dict", href |-> "u2"],
                            [type |-> "dict", url |-> "u1"],
                            [type |-> "dict", title |-> "t"]>>)],
      [type |-> "dict", results |-> PyList(<<>>)],
      PyEmptyDict,
      [type |-> "dict", results |-> PyNone],
      PyList(<<>>) }

SearxResponses ==
    TransportErrors \cup {Response(429, NotJson), Response(200, NotJson)}
        \cup {Response(200, b) : b \in SearxBodies}

\* item.get("url") or item.get("href")
SearxUrlOf(item) ==
    IF dict_get(item, "url", "") # "" THEN item.url ELSE dict_get(item, "href", "")

RECURSIVE SearxCollect(_, _, _)
\* lines 157-164: de-duplicate, stop once max_results URLs are collected
SearxCollect(items, results, max_results) ==
    IF items = <<>> THEN results
    ELSE LET url == SearxUrlOf(Head(items))
             more == IF url # "" /\ \A i \in DOMAIN results : results[i] # url
                     THEN Append(results, url) ELSE results
         IN  IF Len(more) >= max_results THEN more
             ELSE SearxCollect(Tail(items), more, max_results)

\* SearXNGProvider._query_instance: its exceptions reach the caller
query_instance(resp, max_results) ==
    IF resp.exc # "" THEN Raises(resp.exc)
    ELSE IF raise_for_status(resp) THEN Raises("HTTPStatusError")
    ELSE IF resp.body = NotJson THEN Raises("JSONDecodeError")
    ELSE IF resp.body.type # "dict" THEN Raises("AttributeError")
    ELSE LET results == dict_get(resp.body, "results", PyList(<<>>))
         IN  IF results.type # "list" THEN Raises("TypeError")
             ELSE Returns(SearxCollect(results.items, <<>>, max_results))

\* lines 179-190: one turn of the loop over the instances; answer is what
\* search returns when the loop ends here, and is PyNone when it goes on
SearXNGProvider_search_instance(instances, i, resp, max_results) ==
    LET q == query_instance(resp, max_results)
    IN  IF q.raised = "" /\ q.urls # <<>> THEN Returns(q.urls)
        ELSE IF i = Len(instances) THEN Returns(<<>>)
        ELSE PyNone

\* what DDGS().text() does: raise, or hand back a list of result dicts
DdgOutcomes ==
    { [exc |-> "", msg |-> "",
       results |-> PyList(<<[type |-> "dict", href |-> "u3"],
                            [type |-> "dict", title |-> "t"],
                            [type |-> "dict", href |-> "u1"]>>)],
      [exc |-> "", msg |-> "", results |-> PyList(<<>>)],
      [exc |-> "", msg |-> "", results |-> PyNone],
      [exc |-> "RatelimitException", msg |-> "202 Ratelimit", results |-> PyNone],
      [exc |-> "DuckDuckGoSearchException", msg |-> "error", results |-> PyNone],
      [exc |-> "DuckDuckGoSearchException", msg |-> "202 Ratelimit", results |-> PyNone],
      [exc |-> "Exception", msg |-> "202 Accepted", results |-> PyNone],
      [exc |-> "Exception", msg |-> "timed out", results |-> PyNone] }

\* "202" in msg or "Ratelimit" in msg or "ratelimit" in msg.lower(), on the messages above
is_ratelimit(msg) == msg \in {"202 Ratelimit", "202 Accepted"}

DdgHasHref(r) == "href" \in DOMAIN r

\* lines 209-245: one turn of the retry loop; PyNone when the loop goes on
DuckDuckGoProvider_search_attempt(attempt, max_retries, out) ==
    IF out.exc = ""
    THEN IF out.results.type # "list" THEN Returns(<<>>)
         ELSE LET hits == SelectSeq(out.results.items, DdgHasHref)
              IN  Returns([i \in DOMAIN hits |-> hits[i].href])
    ELSE IF out.exc = "RatelimitException"
         THEN IF attempt < max_retries THEN PyNone ELSE Returns(<<>>)
    ELSE IF out.exc = "DuckDuckGoSearchException" THEN Returns(<<>>)
    ELSE IF is_ratelimit(out.msg) /\ attempt < max_retries THEN PyNone
    ELSE Returns(<<>>)

\* the delay with a fixed factor of two at every attempt
backoff_delay_doubled(base_delay, attempt) == base_delay * 2

\* lines 219 and 234: base_delay * (2 ** attempt)
backoff_delay(base_delay, attempt) == base_delay * 2^attempt

\* DuckDuckGoProvider.search so far: with what each call of the scraper ended,
\* the sleeps made, and what search returned once it has ended
DdgIdle == [outs |-> <<>>, sleeps |-> <<>>, ended |-> FALSE, urls |-> <<>>, raised |-> ""]

\* lines 209-245 seen from outside: the call and, when the loop goes on, the sleep
DuckDuckGoProvider_search_step(s, out) ==
    LET ret == DuckDuckGoProvider_search_attempt(s.turn, s.search_retry_max, out)
        before == IF s.turn = 0 THEN DdgIdle ELSE s.ddg
        called == [before EXCEPT !.outs = Append(@, out)]
    IN  IF ret = PyNone
        THEN [called EXCEPT
                 !.sleeps = Append(@, backoff_delay(s.search_retry_base_delay, s.turn))]
        ELSE [called EXCEPT !.ended = TRUE, !.urls = ret.urls, !.raised = ret.raised]

ProviderNames == {"Brave", "SearXNG", "DuckDuckGo"}

\* the provider lists a chain is built with; build_default_chain makes two of them
ProviderLists == UNION {[1..n -> ProviderNames] : n \in 0..MaxProviders}

MaxResultsValues == {1, 5}

ChainIdle ==
    [pc |-> "idle", providers |-> <<>>, pos |-> 0, turn |-> 0, log |-> <<>>,
     result |-> <<>>, raised |-> "",
     brave_api_key |-> "", searxng_base_url |-> "http://localhost:8080",
     search_retry_max |-> 0, search_retry_base_delay |-> 1, ddg |-> DdgIdle,
     max_results |-> 5]

InitChain == srch = ChainIdle

\* SearchProviderChain.search whose loop returns the first answer, empty or not
SearchProviderChain_search_first_answer(s, ret) ==
    LET entry == [pos |-> s.pos, name |-> s.providers[s.pos],
                  urls |-> ret.urls, raised |-> ret.raised]
    IN  [s EXCEPT !.log = Append(@, entry), !.turn = 0,
                  !.pc = IF ret.raised # "" THEN "raised" ELSE "returned",
                  !.raised = ret.raised, !.result = ret.urls]

\* lines 259-264: the provider at s.pos has answered ret
SearchProviderChain_search(s, ret) ==
    LET entry == [pos |-> s.pos, name |-> s.providers[s.pos],
                  urls |-> ret.urls, raised |-> ret.raised]
        logged == [s EXCEPT !.log = Append(@, entry), !.turn = 0]
    IN  IF ret.raised # "" THEN [logged EXCEPT !.pc = "raised", !.raised = ret.raised]
        ELSE IF ret.urls # <<>> THEN [logged EXCEPT !.pc = "returned", !.result = ret.urls]
        ELSE IF s.pos = Len(s.providers) THEN [logged EXCEPT !.pc = "returned", !.result = <<>>]
        ELSE [logged EXCEPT !.pos = @ + 1]

\* a call of SearchProviderChain(providers).search(query, max_results)
ChainSearch ==
    /\ srch.pc = "idle"
    /\ \E providers \in ProviderLists, key \in {"", "k"}, base \in SearxngBaseUrls,
          retries \in 0..MaxRetries, base_delay \in {1, 3},
          max_results \in MaxResultsValues :
          srch' = [ChainIdle EXCEPT
                      !.pc = IF providers = <<>> THEN "returned" ELSE "call",
                      !.providers = providers, !.pos = 1,
                      !.brave_api_key = key, !.searxng_base_url = base,
                      !.search_retry_max = retries,
                      !.search_retry_base_delay = base_delay,
                      !.max_results = max_results]
    /\ UNCHANGED <<storeVars, ingVars, agentVars, callVars>>

BraveSearch ==
    /\ srch.pc = "call"
    /\ srch.providers[srch.pos] = "Brave"
    /\ \E resp \in BraveResponses :
          srch' = SearchProviderChain_search(srch,
                      BraveSearchProvider_search(srch.brave_api_key, resp))
    /\ UNCHANGED <<storeVars, ingVars, agentVars, callVars>>

\* SearXNGProvider.search queries its next instance
SearXNGQueryInstance ==
    /\ srch.pc = "call"
    /\ srch.providers[srch.pos] = "SearXNG"
    /\ \E resp \in SearxResponses :
          LET ret == SearXNGProvider_search_instance(
                         SearXNGInstances(srch.searxng_base_url), srch.turn + 1, resp,
                         srch.max_results)
          IN  srch' = IF ret = PyNone THEN [srch EXCEPT !.turn = @ + 1]
                      ELSE SearchProviderChain_search(srch, ret)
    /\ UNCHANGED <<storeVars, ingVars, agentVars, callVars>>

\* DuckDuckGoProvider.search makes its next attempt
DuckDuckGoAttempt ==
    /\ srch.pc = "call"
    /\ srch.providers[srch.pos] = "DuckDuckGo"
    /\ \E out \in DdgOutcomes :
          LET ret == DuckDuckGoProvider_search_attempt(srch.turn, srch.search_retry_max, out)
              ddg == DuckDuckGoProvider_search_step(srch, out)
          IN  srch' = IF ret = PyNone THEN [srch EXCEPT !.turn = @ + 1, !.ddg = ddg]
                      ELSE SearchProviderChain_search([srch EXCEPT !.ddg = ddg], ret)
    /\ UNCHANGED <<storeVars, ingVars, agentVars, callVars>>

(***************************************************************************)
(* backend/agent/nodes.py, graph.py and runner.py: the research run.       *)
(* Every graph node is a function from the state to a patch; the graph     *)
(* merges the patch into the state and follows the edge to the next node.  *)
(***************************************************************************)
MaxIterations == 3

Goals == {"G"}

\* settings.agent_max_iterations and settings.scrape_concurrency; every
\* scraped page takes a node id, and the report takes one more
AgentMaxIterations == 0..MaxIterations
ScrapeConcurrency == 0..(MaxIds - 1)

Min(a, b) == IF a <= b THEN a ELSE b
Max(a, b) == IF a >= b THEN a ELSE b
Range(seq) == {seq[i] : i \in DOMAIN seq}
Perms(S) == {p \in [1..Cardinality(S) -> S] : \A i, j \in DOMAIN p : p[i] = p[j] => i = j}

\* lines 63-73 of runner.py; artifact_id 0 is the empty string
initial_state(goal) ==
    [goal |-> goal, plan |-> <<>>, urls_found |-> <<>>, urls_scraped |-> <<>>,
     findings |-> <<>>, report |-> "", iteration |-> 0, status |-> "planning",
     artifact_id |-> 0]

\* the graph writes the keys of the patch over the state
Merge(st, patch) == [k \in DOMAIN st |-> IF k \in DOMAIN patch THEN patch[k] ELSE st[k]]

\* what llm.invoke hands back: an exception, or a response with its content
LlmError(nothing) == [exc |-> "ConnectionError", content |-> nothing]
LlmSays(content) == [exc |-> "", content |-> content]

\* the planner's model answers with lines of text (raw.splitlines())
PlannerAnswers ==
    {<<>>, <<" ">>, <<"q1">>, <<"q1", " ", " q2 ">>, <<"q1", " q2 ", "q3", "q4">>}

\* str.strip() on the lines above
str_strip(line) ==
    CASE line = " " -> ""
      [] line = " q2 " -> "q2"
      [] OTHER -> line

NonBlank(line) == str_strip(line) # ""

\* line 68: the first three non-blank lines, stripped
ParseQueries(raw) ==
    LET kept == SelectSeq(raw, NonBlank)
    IN  [i \in 1..Min(3, Len(kept)) |-> str_strip(kept[i])]

planner(st, raw) ==
    LET queries == ParseQueries(raw)
    IN  [plan |-> IF queries = <<>> THEN <<st.goal>> ELSE queries,
         iteration |-> st.iteration + 1,
         status |-> "searching"]

\* what web_search does for one query
SearchOutcomes ==
    {Raises("DuckDuckGoSearchException"), Returns(<<>>), Returns(<<"u1">>),
     Returns(<<"u1", "u2">>), Returns(<<"u2", "u3">>)}

RECURSIVE Unique(_, _)
\* lines 108-113: de-duplicate, keeping the first occurrence
Unique(urls, unique) ==
    IF urls = <<>> THEN unique
    ELSE Unique(Tail(urls),
                IF Head(urls) \in Range(unique) THEN unique ELSE Append(unique, Head(urls)))

RECURSIVE Collect(_, _)
\* lines 97-105: the results in the order the futures complete; a search that
\* raised adds nothing
Collect(found, order) ==
    IF order = <<>> THEN <<>>
    ELSE (IF found[Head(order)].raised = "" THEN found[Head(order)].urls ELSE <<>>)
             \o Collect(found, Tail(order))

\* found: query index -> outcome of web_search; order: the completion order
searcher(st, found, order) ==
    [urls_found |-> Unique(Collect(found, order), <<>>), status |-> "scraping"]

\* the URLs found, scraped before or not
new_urls_all(st) == st.urls_found

\* line 134
new_urls(st) ==
    LET fresh(u) == u \notin Range(st.urls_scraped)
    IN  SelectSeq(st.urls_found, fresh)

\* new_urls[:limit] that leaves the last URL of the batch out
batch_one_short(st, limit) == SubSeq(new_urls(st), 1, Min(limit, Len(new_urls(st))) - 1)

\* line 135: new_urls[:limit], limit >= 0
batch(st, limit) == SubSeq(new_urls(st), 1, Min(limit, Len(new_urls(st))))

\* scrape_and_ingest on a page without chunks: ingest_url creates the Source
\* node and fills its lexical row
scrape_and_ingest(db, url, nid, now) ==
    update_fts_body(create_node(db, "A", "Source", SourceMetadata(url), NULL, nid, now).db,
                    nid, FullText).db

Summary == "Ingested: 'A' (0 words)"

RECURSIVE ScrapeAll(_, _, _, _)
\* lines 141-150: the futures in the order they complete; ok holds the URLs
\* whose ingestion succeeds
ScrapeAll(order, ok, now, acc) ==
    IF order = <<>> THEN acc
    ELSE LET url == Head(order)
             nid == fresh_id(acc.used)
         IN  ScrapeAll(Tail(order), ok, now,
                 IF url \in ok
                 THEN [db |-> scrape_and_ingest(acc.db, url, nid, now),
                       used |-> acc.used \cup {nid},
                       urls_scraped |-> Append(acc.urls_scraped, url),
                       findings |-> Append(acc.findings, Summary)]
                 ELSE acc)

\* the scraper that keeps the summaries to itself
scraper_without_findings(st, db, usd, order, ok, now) ==
    LET acc == ScrapeAll(order, ok, now,
                   [db |-> db, used |-> usd, urls_scraped |-> st.urls_scraped,
                    findings |-> st.findings])
    IN  [db |-> acc.db, used |-> acc.used,
         patch |-> [urls_scraped |-> acc.urls_scraped, findings |-> st.findings,
                    status |-> "synthesising"]]

\* the scraper with the store it leaves; order is a permutation of the batch
scraper(st, db, usd, order, ok, now) ==
    LET acc == ScrapeAll(order, ok, now,
                   [db |-> db, used |-> usd, urls_scraped |-> st.urls_scraped,
                    findings |-> st.findings])
    IN  [db |-> acc.db, used |-> acc.used,
         patch |-> [urls_scraped |-> acc.urls_scraped, findings |-> acc.findings,
                    status |-> "synthesising"]]

\* the synthesiser's model answers with the report
SynthesiserAnswers == {"", "# Report"}

synthesiser(st, content) == [report |-> content, status |-> "evaluating"]

\* the evaluator that goes on until the iteration is past the limit
evaluator_past_limit(st, agent_max_iterations) ==
    IF st.findings # <<>> \/ st.iteration > agent_max_iterations
    THEN [status |-> "done"]
    ELSE [status |-> "re-planning"]

evaluator(st, agent_max_iterations) ==
    IF st.findings # <<>> \/ st.iteration >= agent_max_iterations
    THEN [status |-> "done"]
    ELSE [status |-> "re-planning"]

\* the conditional edge that leads back to the searcher
route_evaluator_to_searcher(st) == IF st.status = "done" THEN "END" ELSE "searcher"

\* lines 67-69 of graph.py
route_evaluator(st) == IF st.status = "done" THEN "END" ELSE "planner"

\* f"Report: {goal[:80]}" for the goals above
ReportTitle(goal) == IF goal = "G" THEN "Report: G" ELSE goal

\* the metadata with the number of URLs found as sources_count
ArtifactMetadata_urls_found(final) ==
    [type |-> "dict", goal |-> final.goal, iterations |-> final.iteration,
     sources_count |-> Len(final.urls_found)]

ArtifactMetadata(final) ==
    [type |-> "dict", goal |-> final.goal, iterations |-> final.iteration,
     sources_count |-> Len(final.urls_scraped)]

\* the worker pool of a stage: the futures in the order they were submitted, the
\* indices of the futures as_completed has handed out, the lists the stage
\* fills from them, and what the one connection has committed
NoPool ==
    [stage |-> "none", futures |-> <<>>, collected |-> <<>>, urls |-> <<>>,
     findings |-> <<>>, committed |-> EmptyDB]

RunIdle ==
    [pc |-> "idle", agent_max_iterations |-> 0, scrape_concurrency |-> 0,
     planner_runs |-> 0, planned |-> TRUE, searches_ok |-> TRUE, ingests_ok |-> TRUE,
     nodes_before |-> {}, pool |-> NoPool]

InitAgent ==
    /\ state = initial_state("G")
    /\ run = RunIdle

\* the store after a stage or the runner has written to it
CommitAgent(db, usd) ==
    /\ nodes' = db.nodes
    /\ edges' = db.edges
    /\ nodes_fts' = db.nodes_fts
    /\ nodes_vec' = db.nodes_vec
    /\ used' = usd
    /\ UNCHANGED <<clock, last, nops>>

\* run_research(goal) is called: the graph is built and fed the initial state
RunResearch ==
    /\ run.pc = "idle"
    /\ \E goal \in Goals, m \in AgentMaxIterations, c \in ScrapeConcurrency :
          /\ state' = initial_state(goal)
          /\ run' = [RunIdle EXCEPT !.pc = "planner", !.agent_max_iterations = m,
                                    !.scrape_concurrency = c,
                                    !.nodes_before = DOMAIN nodes]
    /\ UNCHANGED <<storeVars, ingVars, chainVars, callVars>>

Planner ==
    /\ run.pc = "planner"
    /\ \E llm \in {LlmError(<<>>)} \cup {LlmSays(raw) : raw \in PlannerAnswers} :
          IF llm.exc # ""
          THEN /\ run' = [run EXCEPT !.pc = "raised"]
               /\ UNCHANGED state
          ELSE /\ state' = Merge(state, planner(state, llm.content))
               /\ run' = [run EXCEPT !.pc = "searcher", !.planner_runs = @ + 1,
                                     !.planned = @ /\ ParseQueries(llm.content) # <<>>]
    /\ UNCHANGED <<storeVars, ingVars, chainVars, callVars>>

\* every search returned URLs, and no URL came back from two searches
DistinctUrls(found) ==
    /\ \A i \in DOMAIN found : found[i].raised = "" /\ found[i].urls # <<>>
    /\ \A i, j \in DOMAIN found : i # j => Range(found[i].urls) \cap Range(found[j].urls) = {}

Searcher ==
    /\ run.pc = "searcher"
    /\ \E found \in [DOMAIN state.plan -> SearchOutcomes], order \in Perms(DOMAIN state.plan) :
          /\ state' = Merge(state, searcher(state, found, order))
          /\ run' = [run EXCEPT !.pc = "scraper", !.searches_ok = @ /\ DistinctUrls(found)]
    /\ UNCHANGED <<storeVars, ingVars, chainVars, callVars>>

\* ThreadPoolExecutor(max_workers=limit) raises ValueError unless limit > 0
Scraper ==
    /\ run.pc = "scraper"
    /\ IF run.scrape_concurrency <= 0
       THEN /\ run' = [run EXCEPT !.pc = "raised"]
            /\ UNCHANGED <<state, storeVars>>
       ELSE \E order \in Perms(Range(batch(state, run.scrape_concurrency))),
               ok \in SUBSET Range(batch(state, run.scrape_concurrency)) :
              LET res == scraper(state, DB, used, order, ok, clock)
              IN  /\ state' = Merge(state, res.patch)
                  /\ CommitAgent(res.db, res.used)
                  /\ run' = [run EXCEPT !.pc = "synthesiser",
                                !.ingests_ok = @ /\ ok = Range(order)]
    /\ UNCHANGED <<ingVars, chainVars, callVars>>

Synthesiser ==
    /\ run.pc = "synthesiser"
    /\ \E llm \in {LlmError("")} \cup {LlmSays(text) : text \in SynthesiserAnswers} :
          IF llm.exc # ""
          THEN /\ run' = [run EXCEPT !.pc = "raised"]
               /\ UNCHANGED state
          ELSE /\ state' = Merge(state, synthesiser(state, llm.content))
               /\ run' = [run EXCEPT !.pc = "evaluator"]
    /\ UNCHANGED <<storeVars, ingVars, chainVars, callVars>>

\* the evaluator and the conditional edge that leaves it
Evaluator ==
    /\ run.pc = "evaluator"
    /\ LET after == Merge(state, evaluator(state, run.agent_max_iterations))
       IN  /\ state' = after
           /\ run' = [run EXCEPT !.pc = route_evaluator(after)]
    /\ UNCHANGED <<storeVars, ingVars, chainVars, callVars>>

\* lines 91-114 of runner.py: the graph has reached END
PersistReport ==
    /\ run.pc = "END"
    /\ IF state.report # ""
       THEN LET nid == fresh_id(used)
                res == create_node(DB, ReportTitle(state.goal), "Artifact",
                                   ArtifactMetadata(state), NULL, nid, clock)
            IN  /\ CommitAgent(res.db, used \cup {nid})
                /\ state' = [state EXCEPT !.artifact_id = nid]
       ELSE UNCHANGED <<state, storeVars>>
    /\ run' = [run EXCEPT !.pc = "returned"]
    /\ UNCHANGED <<ingVars, chainVars, callVars>>

(***************************************************************************)
(* backend/db/search.py: lexical, vector and hybrid search.  The searches  *)
(* read the store and return the ids of the nodes they found, best first.  *)
(***************************************************************************)
\* the tokens the FTS5 tokenizer makes of the texts the store holds
FtsTokens(text) ==
    CASE text = FullText -> {"chunk0", "chunk"}
      [] text \in {"chunk0", "chunk"} -> {text}
      [] OTHER -> {}

\* what the caller types as a query
Queries == {"chunk0", "chunk", "chunk0, Chunk!", "a?"}

\* re.findall(r"[A-Za-z0-9]{3,}", text) on the queries above
re_findall(text) ==
    CASE text = "chunk0, Chunk!" -> <<"chunk0", "Chunk">>
      [] text = "a?" -> <<>>
      [] OTHER -> <<text>>

\* str.lower() on the tokens above
str_lower(t) == IF t = "Chunk" THEN "chunk" ELSE t

RECURSIVE DedupeTokens(_, _)
\* lines 38-48: a token is kept unless its lower-case form was seen before
DedupeTokens(tokens, kept) ==
    IF tokens = <<>> THEN kept
    ELSE DedupeTokens(Tail(tokens),
             IF \E i \in DOMAIN kept : str_lower(kept[i]) = str_lower(Head(tokens))
             THEN kept ELSE Append(kept, Head(tokens)))

\* the quoted tokens of the FTS5 expression, in order; '"*"' when there is none
sanitize_fts_query(text) ==
    LET tokens == re_findall(text)
    IN  IF tokens = <<>> THEN <<"*">> ELSE DedupeTokens(tokens, <<>>)

\* nodes_fts MATCH expr: every quoted token occurs in a column of the row
FtsMatch(row, expr) ==
    \A i \in DOMAIN expr :
        str_lower(expr[i]) \in FtsTokens(row.title) \cup FtsTokens(row.content_body)

\* a scope is None or a list of node ids; `if scope_ids:` is false for both
\* None and the empty list
Scopes == {PyNone} \cup {PyList(S) : S \in SUBSET NodeIds}
ScopeGiven(scope_ids) == scope_ids.type = "list" /\ scope_ids.items # {}

\* seq[:n] for n >= 0
Take(seq, n) == SubSeq(seq, 1, Min(n, Len(seq)))

\* lines 58-91; bm25 lists the node ids from the best rank to the worst
fts_search(db, query, top_k, scope_ids, bm25) ==
    LET expr == sanitize_fts_query(query)
        joined == {id \in DOMAIN db.nodes :
                      \E row \in DOMAIN db.nodes_fts : row.id = id /\ FtsMatch(row, expr)}
        rows == IF ScopeGiven(scope_ids) THEN joined \cap scope_ids.items ELSE joined
        hit(id) == id \in rows
    IN  Take(SelectSeq(bm25, hit), top_k)

\* the L2 distance between two embeddings of one dimension
Distance(a, b) == IF a[1] >= b[1] THEN a[1] - b[1] ELSE b[1] - a[1]

\* the ids of S from the nearest to q to the farthest; rows at the same
\* distance come in the order of tie
ByDistance(vec, S, q, tie) ==
    LET pos(id) == CHOOSE i \in DOMAIN tie : tie[i] = id
    IN  CHOOSE p \in Perms(S) :
            \A i, j \in DOMAIN p :
                i < j => \/ Distance(vec[p[i]], q) < Distance(vec[p[j]], q)
                         \/ /\ Distance(vec[p[i]], q) = Distance(vec[p[j]], q)
                            /\ pos(p[i]) < pos(p[j])

\* lines 98-150: `v.embedding MATCH ? AND k = ?` takes the top_k nearest rows of
\* nodes_vec; the join with nodes and the scope filter the rows it took
vector_search(db, query_embedding, top_k, scope_ids, tie) ==
    LET knn == Take(ByDistance(db.nodes_vec, DOMAIN db.nodes_vec, query_embedding, tie), top_k)
        kept(id) == /\ id \in DOMAIN db.nodes
                    /\ ScopeGiven(scope_ids) => id \in scope_ids.items
    IN  SelectSeq(knn, kept)

\* the rank of id in results, from 1; 0 when it is not there
RankIn(results, id) ==
    IF id \in Range(results) THEN CHOOSE i \in DOMAIN results : results[i] = id ELSE 0

\* scores[id] as a fraction num/den: the sum of 1/(rrf_k + rank) over the
\* lists that hold id
RrfScore(fts_results, vec_results, rrf_k, id) ==
    LET f == RankIn(fts_results, id)
        v == RankIn(vec_results, id)
    IN  IF f > 0 /\ v > 0
        THEN [num |-> (rrf_k + f) + (rrf_k + v), den |-> (rrf_k + f) * (rrf_k + v)]
        ELSE IF f > 0 THEN [num |-> 1, den |-> rrf_k + f]
        ELSE IF v > 0 THEN [num |-> 1, den |-> rrf_k + v]
        ELSE [num |-> 0, den |-> 1]

ScoreLess(a, b) == a.num * b.den < b.num * a.den
ScoreEq(a, b) == a.num * b.den = b.num * a.den

\* the keys of scores in the order they were inserted
ScoreKeys(fts_results, vec_results) ==
    LET vec_only(id) == id \notin Range(fts_results)
    IN  fts_results \o SelectSeq(vec_results, vec_only)

\* sorted(scores, key=..., reverse=False): ascending scores
rrf_sorted_ascending(keys, score) ==
    LET pos(id) == CHOOSE i \in DOMAIN keys : keys[i] = id
    IN  CHOOSE p \in Perms(Range(keys)) :
            \A i, j \in DOMAIN p :
                i < j => \/ ScoreLess(score[p[i]], score[p[j]])
                         \/ /\ ScoreEq(score[p[i]], score[p[j]])
                            /\ pos(p[i]) < pos(p[j])

\* line 181: sorted(scores, key=lambda nid: scores[nid], reverse=True); the
\* sort is stable, so equal scores keep the order of insertion
rrf_sorted(keys, score) ==
    LET pos(id) == CHOOSE i \in DOMAIN keys : keys[i] = id
    IN  CHOOSE p \in Perms(Range(keys)) :
            \A i, j \in DOMAIN p :
                i < j => \/ ScoreLess(score[p[j]], score[p[i]])
                         \/ /\ ScoreEq(score[p[i]], score[p[j]])
                            /\ pos(p[i]) < pos(p[j])

\* hybrid_search that returns every id it scored
hybrid_search_uncut(db, query, query_embedding, top_k, rrf_k, scope_ids, bm25, tie) ==
    LET fts_results == fts_search(db, query, top_k * 2, scope_ids, bm25)
        vec_results == vector_search(db, query_embedding, top_k * 2, scope_ids, tie)
        keys == ScoreKeys(fts_results, vec_results)
        scores == [id \in Range(keys) |-> RrfScore(fts_results, vec_results, rrf_k, id)]
    IN  rrf_sorted(keys, scores)

\* lines 157-183
hybrid_search(db, query, query_embedding, top_k, rrf_k, scope_ids, bm25, tie) ==
    LET fts_results == fts_search(db, query, top_k * 2, scope_ids, bm25)
        vec_results == vector_search(db, query_embedding, top_k * 2, scope_ids, tie)
        keys == ScoreKeys(fts_results, vec_results)
        scores == [id \in Range(keys) |-> RrfScore(fts_results, vec_results, rrf_k, id)]
    IN  Take(rrf_sorted(keys, scores), top_k)

RECURSIVE ingest_chunks(_, _, _, _, _)
\* lines 88-119 of ingestor.py: the loop over the chunks, from chunk i on
ingest_chunks(db, source, i, total, now) ==
    IF i >= total THEN db
    ELSE LET nid == fresh_id(DOMAIN db.nodes)
             created == create_node(db, "A", "Chunk",
                            ChunkMetadata(source, i, ChunkText(i)), NULL, nid, now).db
             indexed == update_fts_body(created, nid, ChunkText(i)).db
             embedded == upsert_vec(indexed, nid, embed_text(ChunkText(i))).db
             linked == connect_nodes(embedded, source, nid, "has_chunk", now).db
         IN  ingest_chunks(linked, source, i + 1, total, now)

\* ingest_url on a store that never held a node, when no step fails: the
\* Source node, its lexical row, and total chunks
ingest_url(db, url, total, now) ==
    LET nid == fresh_id(DOMAIN db.nodes)
        created == create_node(db, "A", "Source", SourceMetadata(url), NULL, nid, now).db
        indexed == update_fts_body(created, nid, FullText).db
    IN  ingest_chunks(indexed, nid, 0, total, now)

\* the arguments the searches are called with; a behaviour makes one search
TopKs == {1, 2}
QueryEmbeddings == {<<4>>, <<7>>}
RrfConstants == {1, 60}

NoReply ==
    [op |-> "none", query |-> "", embedding |-> <<0>>, top_k |-> 0, rrf_k |-> 0,
     scope |-> PyNone, bm25 |-> <<>>, tie |-> <<>>, fts |-> <<>>, vec |-> <<>>,
     project |-> 0, depth |-> 0, text |-> <<>>, chunk_size |-> 0, overlap |-> 0,
     fail |-> "none", chunks |-> <<>>, pc |-> "none", conv |-> 0, pending |-> <<>>,
     sent |-> <<>>, acc |-> <<>>, gen |-> "none", result |-> <<>>]

InitCall == reply = NoReply

\* the store after one page was ingested and, possibly, one of its nodes deleted
InitSearch ==
    /\ \E total \in 0..MaxChunks, d \in {0} \cup NodeIds :
          LET full == ingest_url(EmptyDB, "u", total, 0)
              chunks == DOMAIN full.nodes \ {1}
              db == IF d = 0 THEN full ELSE delete_node(full, d).db
          IN  /\ total < MaxIds
              /\ d \in {0} \cup DOMAIN full.nodes
              /\ nodes = db.nodes
              /\ edges = db.edges
              /\ nodes_fts = db.nodes_fts
              /\ nodes_vec = db.nodes_vec
              /\ used = DOMAIN full.nodes
              /\ ing = [pc |-> "done", source |-> 1, total |-> total, i |-> total,
                        chunk |-> IF total = 0 THEN 0 ELSE total + 1, made |-> chunks]
              /\ ingested = chunks
              /\ last = IF d = 0 THEN NoCall
                        ELSE [op |-> "delete_node", raised |-> "", changed |-> TRUE,
                              edges_deleted |-> Cardinality(full.edges \ db.edges)]
              /\ nops = IF d = 0 THEN 0 ELSE 1
    /\ clock = 0
    /\ InitChain
    /\ InitAgent
    /\ InitCall

FtsSearch ==
    /\ reply = NoReply
    /\ \E query \in Queries, top_k \in TopKs, scope_ids \in Scopes,
          bm25 \in Perms(DOMAIN nodes) :
          reply' = [NoReply EXCEPT !.op = "fts_search", !.query = query, !.top_k = top_k,
                       !.scope = scope_ids, !.bm25 = bm25,
                       !.result = fts_search(DB, query, top_k, scope_ids, bm25)]
    /\ UNCHANGED <<storeVars, ingVars, chainVars, agentVars>>

VectorSearch ==
    /\ reply = NoReply
    /\ \E query_embedding \in QueryEmbeddings, top_k \in TopKs, scope_ids \in Scopes,
          tie \in Perms(DOMAIN nodes_vec) :
          reply' = [NoReply EXCEPT !.op = "vector_search", !.embedding = query_embedding,
                       !.top_k = top_k, !.scope = scope_ids, !.tie = tie,
                       !.result = vector_search(DB, query_embedding, top_k, scope_ids, tie)]
    /\ UNCHANGED <<storeVars, ingVars, chainVars, agentVars>>

HybridSearch ==
    /\ reply = NoReply
    /\ \E query \in Queries, query_embedding \in QueryEmbeddings, top_k \in TopKs,
          rrf_k \in RrfConstants, scope_ids \in Scopes,
          bm25 \in Perms(DOMAIN nodes), tie \in Perms(DOMAIN nodes_vec) :
          reply' = [NoReply EXCEPT !.op = "hybrid_search", !.query = query,
                       !.embedding = query_embedding, !.top_k = top_k, !.rrf_k = rrf_k,
                       !.scope = scope_ids, !.bm25 = bm25, !.tie = tie,
                       !.fts = fts_search(DB, query, top_k * 2, scope_ids, bm25),
                       !.vec = vector_search(DB, query_embedding, top_k * 2, scope_ids, tie),
                       !.result = hybrid_search(DB, query, query_embedding, top_k, rrf_k,
                                                scope_ids, bm25, tie)]
    /\ UNCHANGED <<storeVars, ingVars, chainVars, agentVars>>

(***************************************************************************)
(* backend/db/projects.py: a project is a node of type Project, and its    *)
(* content is what the edges lead to from it.                              *)
(***************************************************************************)
MaxDepth == 3

create_project(db, name, nid, now) == create_node(db, name, "Project", PyNone, NULL, nid, now)

link_to_project(db, project_id, node_id, relation, now) ==
    connect_nodes(db, project_id, node_id, relation, now)

RECURSIVE SetToSeq(_)
\* the rows of a set in the order a query hands them back
SetToSeq(S) ==
    IF S = {} THEN <<>>
    ELSE LET x == CHOOSE x \in S : TRUE IN <<x>> \o SetToSeq(S \ {x})

RECURSIVE reachable(_, _, _, _)
\* lines 42-49: the recursive CTE.  queue holds the rows (id, depth) still to
\* be joined with edges, rows the rows produced so far; UNION ALL keeps a row
\* however often it is produced
reachable(db, queue, rows, depth) ==
    IF queue = <<>> THEN rows
    ELSE LET r == Head(queue)
             joined == IF r.depth < depth
                       THEN SetToSeq({e \in db.edges : e.source_id = r.id})
                       ELSE <<>>
             new == [i \in DOMAIN joined |-> [id |-> joined[i].target_id, depth |-> r.depth + 1]]
         IN  reachable(db, Tail(queue) \o new, Append(rows, r), depth)

\* get_project_nodes without DISTINCT: one node per row of the CTE
get_project_nodes_all(db, project_id, depth) ==
    LET rows == reachable(db, <<[id |-> project_id, depth |-> 0]>>, <<>>, depth)
        content(r) == r.id \in DOMAIN db.nodes /\ r.id # project_id
        kept == SelectSeq(rows, content)
    IN  [i \in DOMAIN kept |-> kept[i].id]

\* lines 36-63: the ids of the nodes returned
get_project_nodes(db, project_id, depth) ==
    LET rows == reachable(db, <<[id |-> project_id, depth |-> 0]>>, <<>>, depth)
    IN  SetToSeq({id \in DOMAIN db.nodes :
                     id # project_id /\ \E i \in DOMAIN rows : rows[i].id = id})

RECURSIVE create_all(_, _, _)
\* nodes 1 .. n created in turn, the first one by create_project
create_all(db, i, n) ==
    IF i > n THEN db
    ELSE create_all(IF i = 1 THEN create_project(db, "A", i, 0).db
                    ELSE create_node(db, "B", "Source", PyNone, NULL, i, 0).db,
                    i + 1, n)

RECURSIVE connect_all(_, _)
\* connect_nodes for every pair of pairs
connect_all(db, pairs) ==
    IF pairs = {} THEN db
    ELSE LET p == CHOOSE p \in pairs : TRUE
         IN  connect_all(connect_nodes(db, p[1], p[2], "HAS_SOURCE", 0).db, pairs \ {p})

\* a store of nodes and edges between them, and no call made on it yet
InitProject ==
    /\ \E n \in 1..MaxIds :
          \E pairs \in SUBSET {p \in (1..n) \X (1..n) : p[1] # p[2]} :
              LET db == connect_all(create_all(EmptyDB, 1, n), pairs)
              IN  /\ nodes = db.nodes
                  /\ edges = db.edges
                  /\ nodes_fts = db.nodes_fts
                  /\ nodes_vec = db.nodes_vec
                  /\ used = DOMAIN db.nodes
    /\ clock = 0
    /\ last = NoCall
    /\ nops = 0
    /\ InitIngest
    /\ InitChain
    /\ InitAgent
    /\ InitCall

GetProjectNodes ==
    /\ reply = NoReply
    /\ \E project_id \in NodeIds, depth \in 0..MaxDepth :
          reply' = [NoReply EXCEPT !.op = "get_project_nodes", !.project = project_id,
                       !.depth = depth,
                       !.result = get_project_nodes(DB, project_id, depth)]
    /\ UNCHANGED <<storeVars, ingVars, chainVars, agentVars>>

(***************************************************************************)
(* backend/db/chat.py: a conversation is a node of type Chat with its      *)
(* messages in metadata["messages"] and an edge to its project.            *)
(***************************************************************************)
CONV_RELATION == "CONVERSATION_IN"

\* the messages a call appends
Messages == {<<[role |-> "user", content |-> "hi", ts |-> 0]>>}

\* lines 36-59: create_node and connect_nodes commit one after the other
create_conversation(db, project_id, title, nid, now) ==
    LET created == create_node(db, title, "Chat", [type |-> "dict", messages |-> <<>>],
                               NULL, nid, now)
    IN  IF created.raised # "" THEN created
        ELSE connect_nodes(created.db, nid, project_id, CONV_RELATION, now)

get_conversation(db, conv_id) ==
    LET node == get_node(db, conv_id)
    IN  IF node = PyNone THEN PyNone
        ELSE IF node.node_type # "Chat" THEN PyNone
        ELSE node

\* lines 105-131
append_messages(db, conv_id, messages, now) ==
    LET node == get_conversation(db, conv_id)
    IN  IF node = PyNone THEN Raise(db, "ValueError: Chat node not found")
        ELSE LET existing == dict_get(node.metadata, "messages", <<>>)
                 new_metadata == [k \in DOMAIN node.metadata \cup {"messages"} |->
                                     IF k = "messages" THEN existing \o messages
                                     ELSE node.metadata[k]]
             IN  update_node(db, conv_id, [metadata |-> new_metadata], now)

delete_conversation(db, conv_id) == delete_node(db, conv_id)

CreateProject ==
    /\ nops < MaxOps
    /\ NodeIds \ used # {}
    /\ Commit(create_project(DB, "A", uuid4, clock), "create_project")
    /\ UNCHANGED <<clock, ingVars, chainVars, agentVars, callVars>>

\* project_id is any id but the one uuid4 is about to hand out
CreateConversation ==
    /\ nops < MaxOps
    /\ NodeIds \ used # {}
    /\ \E project_id \in NodeIds \ {uuid4} :
          Commit(create_conversation(DB, project_id, "B", uuid4, clock), "create_conversation")
    /\ UNCHANGED <<clock, ingVars, chainVars, agentVars, callVars>>

AppendMessages ==
    /\ nops < MaxOps
    /\ \E conv_id \in NodeIds, messages \in Messages :
          Commit(append_messages(DB, conv_id, messages, clock), "append_messages")
    /\ UNCHANGED <<clock, ingVars, chainVars, agentVars, callVars>>

DeleteConversation ==
    /\ nops < MaxOps
    /\ \E conv_id \in NodeIds :
          Commit(delete_conversation(DB, conv_id), "delete_conversation")
    /\ UNCHANGED <<clock, ingVars, chainVars, agentVars, callVars>>

(***************************************************************************)
(* backend/rag/chunker.py.  A text is a sequence of characters.            *)
(***************************************************************************)
MaxLen == 4
MaxSize == 3

Chars == {"a", " ", "\n"}
Whitespace == {" ", "\n"}
Texts == UNION {[1..n -> Chars] : n \in 0..MaxLen}

RECURSIVE lstrip(_)
lstrip(s) == IF s # <<>> /\ Head(s) \in Whitespace THEN lstrip(Tail(s)) ELSE s

RECURSIVE rstrip(_)
rstrip(s) ==
    IF s # <<>> /\ s[Len(s)] \in Whitespace THEN rstrip(SubSeq(s, 1, Len(s) - 1)) ELSE s

\* str.strip()
strip(s) == rstrip(lstrip(s))

\* s[i:j] for 0 <= i
Slice(s, i, j) == SubSeq(s, i + 1, Min(j, Len(s)))

StartsWith(s, sep) == Len(s) >= Len(sep) /\ SubSeq(s, 1, Len(sep)) = sep

RECURSIVE contains(_, _)
\* sep in s
contains(s, sep) ==
    IF Len(s) < Len(sep) THEN FALSE ELSE StartsWith(s, sep) \/ contains(Tail(s), sep)

RECURSIVE split(_, _, _)
\* s.split(sep); cur is the part being read
split(s, sep, cur) ==
    IF s = <<>> THEN <<cur>>
    ELSE IF StartsWith(s, sep)
         THEN <<cur>> \o split(SubSeq(s, Len(sep) + 1, Len(s)), sep, <<>>)
         ELSE split(Tail(s), sep, Append(cur, Head(s)))

RECURSIVE join(_)
\* " ".join(buf)
join(buf) ==
    IF buf = <<>> THEN <<>>
    ELSE IF Len(buf) = 1 THEN Head(buf)
    ELSE Head(buf) \o <<" ">> \o join(Tail(buf))

RECURSIVE hard_cut(_, _)
\* lines 40-45: pieces of chunk_size characters, the blank ones left out
hard_cut(text, chunk_size) ==
    IF text = <<>> THEN <<>>
    ELSE (IF strip(Slice(text, 0, chunk_size)) # <<>>
          THEN <<Slice(text, 0, chunk_size)>> ELSE <<>>)
             \o hard_cut(Slice(text, chunk_size, Len(text)), chunk_size)

Separators == << <<"\n", "\n">>, <<"\n">>, <<" ">> >>

RECURSIVE recursive_split(_, _, _)
RECURSIVE split_parts(_, _, _)
\* lines 16-45
recursive_split(text, separators, chunk_size) ==
    IF Len(text) <= chunk_size THEN (IF strip(text) # <<>> THEN <<text>> ELSE <<>>)
    ELSE IF \E idx \in DOMAIN separators : contains(text, separators[idx])
         THEN LET idx == CHOOSE i \in DOMAIN separators :
                             /\ contains(text, separators[i])
                             /\ \A j \in 1..(i - 1) : ~contains(text, separators[j])
              IN  split_parts(split(text, separators[idx], <<>>),
                              SubSeq(separators, idx + 1, Len(separators)), chunk_size)
    ELSE hard_cut(text, chunk_size)

\* lines 30-37: the loop over raw_parts
split_parts(raw_parts, remaining_seps, chunk_size) ==
    IF raw_parts = <<>> THEN <<>>
    ELSE LET stripped == strip(Head(raw_parts))
         IN  (IF stripped = <<>> THEN <<>>
              ELSE IF Len(stripped) <= chunk_size THEN <<stripped>>
              ELSE recursive_split(stripped, remaining_seps, chunk_size))
                 \o split_parts(Tail(raw_parts), remaining_seps, chunk_size)

\* chunk.find(" ", cut): the index from 0, or -1
find_space(chunk, cut) ==
    LET idxs == {i \in cut..(Len(chunk) - 1) : chunk[i + 1] = " "}
    IN  IF idxs = {} THEN -1 ELSE CHOOSE i \in idxs : \A j \in idxs : i <= j

\* lines 92-98: the tail of the emitted chunk that seeds the next buffer
overlap_text(chunk, overlap) ==
    IF Len(chunk) > overlap
    THEN LET cut == Len(chunk) - overlap
             space_idx == find_space(chunk, cut)
         IN  IF space_idx # -1 THEN Slice(chunk, space_idx + 1, Len(chunk))
             ELSE Slice(chunk, cut, Len(chunk))
    ELSE chunk

RECURSIVE merge_pieces(_, _, _, _, _)
\* lines 84-105: the loop over the pieces and the last buffer
merge_pieces(pieces, chunks, buf, chunk_size, overlap) ==
    IF pieces = <<>> THEN (IF buf # <<>> THEN Append(chunks, join(buf)) ELSE chunks)
    ELSE LET piece == Head(pieces)
             tentative == IF buf # <<>> THEN join(Append(buf, piece)) ELSE piece
         IN  IF Len(tentative) > chunk_size /\ buf # <<>>
             THEN LET chunk == join(buf)
                      seed == overlap_text(chunk, overlap)
                  IN  merge_pieces(Tail(pieces), Append(chunks, chunk),
                          (IF strip(seed) # <<>> THEN <<seed>> ELSE <<>>) \o <<piece>>,
                          chunk_size, overlap)
             ELSE merge_pieces(Tail(pieces), chunks, Append(buf, piece), chunk_size, overlap)

NotBlank(c) == strip(c) # <<>>

\* lines 52-107
chunk_text(text, chunk_size, overlap) ==
    IF strip(text) = <<>> THEN <<>>
    ELSE SelectSeq(merge_pieces(recursive_split(strip(text), Separators, chunk_size),
                                <<>>, <<>>, chunk_size, overlap),
                   NotBlank)

\* chunk_text(text, chunk_size, overlap) with chunk_size > 0 and 0 <= overlap < chunk_size
ChunkTextCall ==
    /\ reply = NoReply
    /\ \E text \in Texts, chunk_size \in 1..MaxSize :
          \E overlap \in 0..(chunk_size - 1) :
              reply' = [NoReply EXCEPT !.op = "chunk_text", !.text = text,
                           !.chunk_size = chunk_size, !.overlap = overlap,
                           !.result = chunk_text(text, chunk_size, overlap)]
    /\ UNCHANGED <<storeVars, ingVars, chainVars, agentVars>>

(***************************************************************************)
(* backend/rag/chat.py: chat_stream, the server-sent events of one chat    *)
(* turn.  What the collaborators of a turn do is an input: which step      *)
(* raises, and the chunks the model streams before it ends or raises.      *)
(***************************************************************************)
MaxTokens == 2

\* the step that raises an Exception, if any
ChatFailures == {"none", "scope", "embed", "retrieve", "stream"}
\* chunk.content of the chunks of llm.astream; a chunk may carry no text
LlmChunks == UNION {[1..n -> {"", "t"}] : n \in 0..MaxTokens}
\* str(exc) of the exception a step raises
ExcMessage(step) == IF step = "stream" THEN "model failed" ELSE "failed"

\* lines 53-55: one frame, whose data is the JSON text of the payload
sse(payload) == [data |-> payload]

\* lines 113-126: the citation entry of a retrieved node
citation_node(db, id) ==
    LET node == get_node(db, id)
    IN  [id |-> node.id, title |-> node.title,
         url |-> IF Truthy(node.metadata) THEN dict_get(node.metadata, "url", "") ELSE ""]

\* lines 85-91 and 103: the scope handed to hybrid_search; project_id 0 is None
chat_scope(db, project_id) ==
    LET project_nodes == get_project_nodes(db, project_id, 3)
        scope_ids == IF project_id # 0 THEN PyList(Range(project_nodes)) ELSE PyNone
    IN  IF ScopeGiven(scope_ids) THEN scope_ids ELSE PyNone

\* a token frame for every chunk, empty ones included
token_frames_every_chunk(chunks) ==
    [i \in DOMAIN chunks |-> sse([event |-> "token", text |-> chunks[i]])]

\* lines 166-169: the frames of the chunks streamed so far
token_frames(chunks) ==
    LET said == SelectSeq(chunks, LAMBDA t : t # "")
    IN  [i \in DOMAIN said |-> sse([event |-> "token", text |-> said[i]])]

\* chat_stream with the done frame in a finally clause
chat_stream_always_done(db, question, project_id, top_k, fail, chunks, bm25, tie) ==
    LET raises(step) == fail = step /\ (step = "scope" => project_id # 0)
        error(step) == <<sse([event |-> "error", detail |-> ExcMessage(step)]),
                         sse([event |-> "done"])>>
        results == hybrid_search(db, question, embed_text(question), top_k, 60,
                                 chat_scope(db, project_id), bm25, tie)
        citation_nodes == [i \in DOMAIN results |-> citation_node(db, results[i])]
    IN  IF raises("scope") THEN error("scope")
        ELSE IF raises("embed") THEN error("embed")
        ELSE IF raises("retrieve") THEN error("retrieve")
        ELSE IF raises("stream") THEN token_frames(chunks) \o error("stream")
        ELSE token_frames(chunks)
             \o (IF citation_nodes # <<>>
                 THEN <<sse([event |-> "citation", nodes |-> citation_nodes])>> ELSE <<>>)
             \o <<sse([event |-> "done"])>>

\* lines 61-183: the frames the generator yields, in order; the stream of the
\* model yields chunks and then, when fail = "stream", raises
chat_stream(db, question, project_id, top_k, fail, chunks, bm25, tie) ==
    LET raises(step) == fail = step /\ (step = "scope" => project_id # 0)
        error(step) == <<sse([event |-> "error", detail |-> ExcMessage(step)])>>
        results == hybrid_search(db, question, embed_text(question), top_k, 60,
                                 chat_scope(db, project_id), bm25, tie)
        citation_nodes == [i \in DOMAIN results |-> citation_node(db, results[i])]
    IN  IF raises("scope") THEN error("scope")
        ELSE IF raises("embed") THEN error("embed")
        ELSE IF raises("retrieve") THEN error("retrieve")
        ELSE IF raises("stream") THEN token_frames(chunks) \o error("stream")
        ELSE token_frames(chunks)
             \o (IF citation_nodes # <<>>
                 THEN <<sse([event |-> "citation", nodes |-> citation_nodes])>> ELSE <<>>)
             \o <<sse([event |-> "done"])>>

\* one chat turn against the store
ChatStream ==
    /\ reply = NoReply
    /\ \E question \in {"chunk", "a?"}, project_id \in {0} \cup NodeIds, top_k \in TopKs,
          fail \in ChatFailures, chunks \in LlmChunks, bm25 \in Perms(DOMAIN nodes) :
          LET tie == SetToSeq(DOMAIN nodes_vec)
              scope == chat_scope(DB, project_id)
          IN  reply' = [NoReply EXCEPT !.op = "chat_stream", !.query = question,
                           !.project = project_id, !.top_k = top_k, !.scope = scope,
                           !.fail = fail, !.chunks = chunks,
                           !.fts = hybrid_search(DB, question, embed_text(question), top_k,
                                                 60, scope, bm25, tie),
                           !.result = chat_stream(DB, question, project_id, top_k, fail,
                                                  chunks, bm25, tie)]
    /\ UNCHANGED <<storeVars, ingVars, chainVars, agentVars>>

(***************************************************************************)
(* backend/agent/nodes.py, the searcher and the scraper thread by thread:  *)
(* each stage submits its calls to a ThreadPoolExecutor of its own, takes  *)
(* the futures as they complete, and leaves the `with` block.  The workers *)
(* of the scraper write through the one connection of the run, which has   *)
(* one transaction: storeVars is what the connection sees, and             *)
(* run.pool.committed what it has committed.                               *)
(***************************************************************************)
\* lines 94-96 and 138-140: pool.submit for every argument
submit(pool, kind, args) ==
    [pool EXCEPT !.stage = kind, !.collected = <<>>,
        !.futures = @ \o [i \in DOMAIN args |->
                             [kind |-> kind, arg |-> args[i], pc |-> "pending",
                              ret |-> Returns(<<>>), nid |-> 0, open |-> FALSE]]]

\* the futures of the stage that have ended and were not handed out yet
as_completed(pool) ==
    {i \in DOMAIN pool.futures :
        /\ pool.futures[i].kind = pool.stage
        /\ pool.futures[i].pc = "done"
        /\ \A k \in DOMAIN pool.collected : pool.collected[k] # i}

\* a stage that goes on as soon as one future was taken
stage_over_after_first(pool) == pool.collected # <<>>

\* lines 97 and 141, and the end of the `with` block: every future was taken,
\* and shutdown(wait=True) has joined the workers
stage_over(pool) ==
    \A i \in DOMAIN pool.futures :
        pool.futures[i].kind = pool.stage =>
            \E k \in DOMAIN pool.collected : pool.collected[k] = i

\* what is left of a pool when its stage returns: the threads
forget(pool) ==
    [pool EXCEPT !.collected = <<>>, !.urls = <<>>, !.findings = <<>>,
        !.futures = [i \in DOMAIN @ |-> [@[i] EXCEPT !.ret = Returns(<<>>)]]]

\* the searcher that puts the URLs of a future in front of the others
searcher_take_in_front(pool, i) ==
    LET f == pool.futures[i]
    IN  [pool EXCEPT !.collected = Append(@, i),
                     !.urls = IF f.ret.raised = "" THEN f.ret.urls \o @ ELSE @]

\* lines 97-105: future.result() of the next completed future
searcher_take(pool, i) ==
    LET f == pool.futures[i]
    IN  [pool EXCEPT !.collected = Append(@, i),
                     !.urls = IF f.ret.raised = "" THEN @ \o f.ret.urls ELSE @]

\* the scraper that lists the URL whether or not its ingestion raised
scraper_take_any(pool, i) ==
    LET f == pool.futures[i]
    IN  [pool EXCEPT !.collected = Append(@, i),
                     !.urls = Append(@, f.arg),
                     !.findings = IF f.ret.raised = "" THEN Append(@, Summary) ELSE @]

\* lines 141-150: future.result() of the next completed future
scraper_take(pool, i) ==
    LET f == pool.futures[i]
    IN  [pool EXCEPT !.collected = Append(@, i),
                     !.urls = IF f.ret.raised = "" THEN Append(@, f.arg) ELSE @,
                     !.findings = IF f.ret.raised = "" THEN Append(@, Summary) ELSE @]

\* `with conn:` left with an exception: conn.rollback() undoes every write the
\* connection has not committed, whichever worker made it
rollback(pool, db) == pool.committed

\* the state after the planner, with no thread started yet
InitPool ==
    /\ InitStore
    /\ InitIngest
    /\ InitChain
    /\ InitCall
    /\ \E raw \in PlannerAnswers, c \in ScrapeConcurrency :
          /\ state = Merge(initial_state("G"), planner(initial_state("G"), raw))
          /\ run = [RunIdle EXCEPT !.pc = "searcher", !.scrape_concurrency = c,
                                   !.agent_max_iterations = 1, !.planner_runs = 1]

\* the store as the connection sees it after a statement or a rollback
ConnectionSees(db) ==
    /\ nodes' = db.nodes
    /\ edges' = db.edges
    /\ nodes_fts' = db.nodes_fts
    /\ nodes_vec' = db.nodes_vec
    /\ used' = used \cup DOMAIN db.nodes
    /\ UNCHANGED <<clock, last, nops>>

SearcherSubmit ==
    /\ run.pc = "searcher"
    /\ run.pool.stage = "none"
    /\ run' = [run EXCEPT !.pool = submit(@, "search", state.plan)]
    /\ UNCHANGED <<state, storeVars, ingVars, chainVars, callVars>>

\* a thread of the pool takes a call from the queue
WorkerStart ==
    /\ \E i \in DOMAIN run.pool.futures :
          /\ run.pool.futures[i].pc = "pending"
          /\ run' = [run EXCEPT !.pool.futures[i].pc = "running"]
    /\ UNCHANGED <<state, storeVars, ingVars, chainVars, callVars>>

\* web_search returns or raises
SearchWorkerEnd ==
    /\ \E i \in DOMAIN run.pool.futures, out \in SearchOutcomes :
          /\ run.pool.futures[i].kind = "search"
          /\ run.pool.futures[i].pc = "running"
          /\ run' = [run EXCEPT !.pool.futures[i].pc = "done",
                                !.pool.futures[i].ret = out]
    /\ UNCHANGED <<state, storeVars, ingVars, chainVars, callVars>>

SearcherTake ==
    /\ run.pc = "searcher"
    /\ run.pool.stage = "search"
    /\ \E i \in as_completed(run.pool) :
          run' = [run EXCEPT !.pool = searcher_take(@, i)]
    /\ UNCHANGED <<state, storeVars, ingVars, chainVars, callVars>>

\* lines 107-116
SearcherReturn ==
    /\ run.pc = "searcher"
    /\ run.pool.stage = "search"
    /\ stage_over(run.pool)
    /\ state' = Merge(state, [urls_found |-> Unique(run.pool.urls, <<>>),
                              status |-> "scraping"])
    /\ run' = [run EXCEPT !.pc = "scraper", !.pool = forget(@)]
    /\ UNCHANGED <<storeVars, ingVars, chainVars, callVars>>

\* lines 130-140; ThreadPoolExecutor(max_workers=limit) raises ValueError
\* unless limit > 0
ScraperSubmit ==
    /\ run.pc = "scraper"
    /\ run.pool.stage = "search"
    /\ IF run.scrape_concurrency <= 0
       THEN run' = [run EXCEPT !.pc = "raised"]
       ELSE run' = [run EXCEPT
                       !.pool = [submit(@, "ingest", batch(state, run.scrape_concurrency))
                                    EXCEPT !.urls = state.urls_scraped,
                                           !.findings = state.findings,
                                           !.committed = DB]]
    /\ UNCHANGED <<state, storeVars, ingVars, chainVars, callVars>>

\* ingest_url fetches the page, or fails to
IngestFetch ==
    /\ \E i \in DOMAIN run.pool.futures, fetched \in BOOLEAN :
          /\ run.pool.futures[i].kind = "ingest"
          /\ run.pool.futures[i].pc = "running"
          /\ run' = IF fetched
                    THEN [run EXCEPT !.pool.futures[i].pc = "insert"]
                    ELSE [run EXCEPT !.pool.futures[i].pc = "done",
                                     !.pool.futures[i].ret = Raises("HTTPError")]
    /\ UNCHANGED <<state, storeVars, ingVars, chainVars, callVars>>

\* create_node: conn.execute(INSERT INTO nodes ...) inside `with conn:`
IngestInsertNode ==
    /\ \E i \in DOMAIN run.pool.futures :
          LET f == run.pool.futures[i]
              nid == fresh_id(used)
          IN  /\ f.pc = "insert"
              /\ NodeIds \ used # {}
              /\ ConnectionSees(create_node(DB, "A", "Source", SourceMetadata(f.arg),
                                            NULL, nid, clock).db)
              /\ run' = [run EXCEPT !.pool.futures[i].pc = "commit_node",
                                    !.pool.futures[i].nid = nid,
                                    !.pool.futures[i].open = TRUE]
    /\ UNCHANGED <<state, ingVars, chainVars, callVars>>

\* the end of a `with conn:` block without an exception: conn.commit()
IngestCommit ==
    /\ \E i \in DOMAIN run.pool.futures :
          LET f == run.pool.futures[i]
          IN  /\ f.pc \in {"commit_node", "commit_fts"}
              /\ run' = [run EXCEPT
                            !.pool.committed = DB,
                            !.pool.futures[i].open = FALSE,
                            !.pool.futures[i].pc =
                                IF f.pc = "commit_node" THEN "get_node" ELSE "done",
                            !.pool.futures[i].ret =
                                IF f.pc = "commit_node" THEN @ ELSE Returns(<<Summary>>)]
    /\ UNCHANGED <<state, storeVars, ingVars, chainVars, callVars>>

\* create_node returns get_node(conn, nid); ingest_url reads source_node.id
IngestGetNode ==
    /\ \E i \in DOMAIN run.pool.futures :
          LET f == run.pool.futures[i]
          IN  /\ f.pc = "get_node"
              /\ run' = IF get_node(DB, f.nid) # PyNone
                        THEN [run EXCEPT !.pool.futures[i].pc = "update_fts"]
                        ELSE [run EXCEPT !.pool.futures[i].pc = "done",
                                         !.pool.futures[i].ret = Raises("AttributeError")]
    /\ UNCHANGED <<state, storeVars, ingVars, chainVars, callVars>>

\* UPDATE nodes_fts inside `with conn:`; when the statement raises, the block
\* rolls back
IngestUpdateFts ==
    /\ \E i \in DOMAIN run.pool.futures, raises \in BOOLEAN :
          LET f == run.pool.futures[i]
          IN  /\ f.pc = "update_fts"
              /\ IF raises
                 THEN /\ ConnectionSees(rollback(run.pool, DB))
                      /\ run' = [run EXCEPT
                                    !.pool.futures[i].pc = "done",
                                    !.pool.futures[i].ret = Raises("OperationalError")]
                 ELSE /\ ConnectionSees(update_fts_body(DB, f.nid, FullText).db)
                      /\ run' = [run EXCEPT !.pool.futures[i].pc = "commit_fts",
                                            !.pool.futures[i].open = TRUE]
    /\ UNCHANGED <<state, ingVars, chainVars, callVars>>

ScraperTake ==
    /\ run.pc = "scraper"
    /\ run.pool.stage = "ingest"
    /\ \E i \in as_completed(run.pool) :
          run' = [run EXCEPT !.pool = scraper_take(@, i)]
    /\ UNCHANGED <<state, storeVars, ingVars, chainVars, callVars>>

\* lines 152-156
ScraperReturn ==
    /\ run.pc = "scraper"
    /\ run.pool.stage = "ingest"
    /\ stage_over(run.pool)
    /\ state' = Merge(state, [urls_scraped |-> run.pool.urls,
                              findings |-> run.pool.findings,
                              status |-> "synthesising"])
    /\ run' = [run EXCEPT !.pc = "synthesiser", !.pool = forget(@)]
    /\ UNCHANGED <<storeVars, ingVars, chainVars, callVars>>

\* the sequences without repetition over a set
Arrangements(S) == UNION {Perms(T) : T \in SUBSET S}

\* the scraper is due: the searcher has returned urls_found, and earlier
\* executions of the scraper have left urls_scraped, findings and their nodes
InitScraper ==
    /\ InitIngest
    /\ InitChain
    /\ InitCall
    /\ clock = 0 /\ last = NoCall /\ nops = 0
    /\ \E found \in Arrangements({"u1", "u2", "u3"}),
          scraped \in Arrangements({"u1", "u2", "u3"}), c \in ScrapeConcurrency :
          LET acc == ScrapeAll(scraped, Range(scraped), 0,
                               [db |-> EmptyDB, used |-> {}, urls_scraped |-> <<>>,
                                findings |-> <<>>])
          IN  /\ Len(scraped) < MaxIds
              /\ nodes = acc.db.nodes
              /\ edges = acc.db.edges
              /\ nodes_fts = acc.db.nodes_fts
              /\ nodes_vec = acc.db.nodes_vec
              /\ used = acc.used
              /\ state = [initial_state("G") EXCEPT
                             !.plan = <<"G">>, !.iteration = 1, !.status = "scraping",
                             !.urls_found = found, !.urls_scraped = acc.urls_scraped,
                             !.findings = acc.findings]
              /\ run = [RunIdle EXCEPT !.pc = "scraper", !.scrape_concurrency = c,
                                       !.agent_max_iterations = 1, !.planner_runs = 1,
                                       !.pool.stage = "search"]

(***************************************************************************)
(* backend/api/routers/chat.py: the send-message endpoint and the          *)
(* generator of its response.  The generator is resumed once per frame;    *)
(* other requests are served between two frames.                           *)
(***************************************************************************)
\* the chunks the model streams for a question sent over the endpoint
SendChunks == {<<>>, <<"">>, <<"a">>, <<"a", "", "b">>}

RECURSIVE str_join(_)
\* "".join(accumulated_tokens)
str_join(texts) == IF texts = <<>> THEN "" ELSE Head(texts) \o str_join(Tail(texts))

\* the reply made of the last token alone
full_reply_last_token(accumulated_tokens) ==
    IF accumulated_tokens = <<>> THEN ""
    ELSE accumulated_tokens[Len(accumulated_tokens)]

\* line 204
full_reply(accumulated_tokens) == str_join(accumulated_tokens)

\* lines 147-169: the checks, the user message, and the response with its
\* generator not yet started
send_message_endpoint(db, project_id, conv_id, message, now) ==
    IF get_node(db, project_id) = PyNone THEN Raise(db, "404: project not found")
    ELSE IF get_conversation(db, conv_id) = PyNone
         THEN Raise(db, "404: conversation not found")
    ELSE append_messages(db, conv_id,
                         <<[role |-> "user", content |-> message, ts |-> now]>>, now)

\* lines 197-213: what follows `yield frame`: the token is kept, and on done
\* the reply is stored; the store and the exception that leaves the loop
chat_sse_after_frame(db, conv_id, accumulated_tokens, frame, now) ==
    LET payload == frame.data
        reply_text == full_reply(accumulated_tokens)
    IN  IF payload.event = "done" /\ reply_text # ""
        THEN append_messages(db, conv_id,
                 <<[role |-> "assistant", content |-> reply_text, ts |-> now]>>, now)
        ELSE Ok(db)

SendMessage ==
    /\ reply = NoReply
    /\ \E project_id \in NodeIds, conv_id \in NodeIds,
          fail \in {"none", "embed", "stream"}, chunks \in SendChunks :
          LET res == send_message_endpoint(DB, project_id, conv_id, "a?", clock)
          IN  /\ ConnectionSees(res.db)
              /\ reply' = [NoReply EXCEPT
                              !.op = "send_message", !.project = project_id,
                              !.conv = conv_id, !.fail = fail, !.chunks = chunks,
                              !.query = "a?",
                              !.pc = IF res.raised # "" THEN "404" ELSE "start"]
    /\ UNCHANGED <<ingVars, chainVars, agentVars>>

\* the generator yields the next frame of chat_stream and runs up to its next
\* yield, or to its end; chat_stream runs its retrieval when its first frame
\* is asked for
SendFrame ==
    /\ reply.pc \in {"start", "stream"}
    /\ LET frames == IF reply.pc = "start"
                     THEN chat_stream(DB, reply.query, reply.project, 5, reply.fail,
                                      reply.chunks, SetToSeq(DOMAIN nodes),
                                      SetToSeq(DOMAIN nodes_vec))
                     ELSE reply.pending
           frame == Head(frames)
           accumulated_tokens ==
               IF frame.data.event = "token"
               THEN Append(reply.acc, dict_get(frame.data, "text", ""))
               ELSE reply.acc
           res == chat_sse_after_frame(DB, reply.conv, accumulated_tokens, frame, clock)
           error_frame == sse([event |-> "error", detail |-> res.raised])
           over == res.raised # "" \/ Tail(frames) = <<>>
       IN  /\ ConnectionSees(res.db)
           /\ reply' = [reply EXCEPT
                           !.acc = accumulated_tokens,
                           !.sent = @ \o <<frame>> \o
                                    (IF res.raised # "" THEN <<error_frame>> ELSE <<>>),
                           !.pending = IF over THEN <<>> ELSE Tail(frames),
                           !.pc = IF over THEN "closed" ELSE "stream"]
    /\ UNCHANGED <<ingVars, chainVars, agentVars>>

(***************************************************************************)
(* backend/api/routers/agent.py: a research request.  _run_graph runs in a *)
(* thread of the executor and puts frames on the queue; the generator of   *)
(* the response takes them off the queue on the event loop and ends when   *)
(* it takes None.  reply.result is everything put so far, reply.pending    *)
(* the queue, reply.sent what the generator has yielded.                   *)
(***************************************************************************)
\* the call of _run_graph that raises, if any
RunnerFailures == {"none", "get_connection", "init_db", "build_graph", "create_node"}

\* lines 110-120
node_frame(node_name, update) ==
    sse([event |-> "node", node |-> node_name,
         status |-> dict_get(update, "status", ""),
         iteration |-> dict_get(update, "iteration", 0),
         urls_scraped |-> dict_get(update, "urls_scraped", <<>>),
         findings_count |-> Len(dict_get(update, "findings", <<>>))])

\* lines 139-147; artifact_id 0 is None
done_frame(final, artifact_id) ==
    sse([event |-> "done", report |-> final.report, artifact_id |-> artifact_id,
         iterations |-> final.iteration, sources_scraped |-> final.urls_scraped])

\* line 150
error_frame(detail) == sse([event |-> "error", detail |-> detail])

\* loop.call_soon_threadsafe(queue.put_nowait, item)
put_nowait(r, item) ==
    [r EXCEPT !.pending = Append(@, item), !.result = Append(@, item)]

\* POST /research: the generator is started and hands _run_graph to the executor
Research ==
    /\ reply = NoReply
    /\ run.pc = "idle"
    /\ \E fail \in RunnerFailures :
          reply' = [NoReply EXCEPT !.op = "research", !.pc = "get_connection",
                                   !.fail = fail, !.gen = "waiting"]
    /\ UNCHANGED <<storeVars, ingVars, chainVars, agentVars>>

\* line 87, outside the try block: an exception ends the thread
RunnerGetConnection ==
    /\ reply.pc = "get_connection"
    /\ reply' = [reply EXCEPT !.pc = IF reply.fail = "get_connection"
                                     THEN "raised" ELSE "init_db"]
    /\ UNCHANGED <<storeVars, ingVars, chainVars, agentVars>>

\* line 88, outside the try block
RunnerInitDb ==
    /\ reply.pc = "init_db"
    /\ reply' = [reply EXCEPT !.pc = IF reply.fail = "init_db"
                                     THEN "raised" ELSE "build_graph"]
    /\ UNCHANGED <<storeVars, ingVars, chainVars, agentVars>>

\* lines 90-105: the workspace, the graph and the initial state
RunnerBuildGraph ==
    /\ reply.pc = "build_graph"
    /\ IF reply.fail = "build_graph"
       THEN /\ reply' = [put_nowait(reply, error_frame("OSError")) EXCEPT !.pc = "finally"]
            /\ UNCHANGED agentVars
       ELSE /\ \E goal \in Goals, m \in AgentMaxIterations, c \in ScrapeConcurrency :
                  /\ state' = initial_state(goal)
                  /\ run' = [RunIdle EXCEPT !.pc = "planner", !.agent_max_iterations = m,
                                            !.scrape_concurrency = c,
                                            !.nodes_before = DOMAIN nodes]
            /\ reply' = [reply EXCEPT !.pc = "stream"]
    /\ UNCHANGED <<storeVars, ingVars, chainVars>>

\* the node raises: graph.stream raises and the except block puts the error
StreamRaises(detail) ==
    /\ run' = [run EXCEPT !.pc = "raised"]
    /\ reply' = [put_nowait(reply, error_frame(detail)) EXCEPT !.pc = "finally"]
    /\ UNCHANGED <<state, storeVars>>

\* the node returns update: the graph merges it and the loop puts its frame
StreamEvent(node_name, update, db, usd, next) ==
    /\ state' = Merge(state, update)
    /\ CommitAgent(db, usd)
    /\ run' = [run EXCEPT !.pc = next]
    /\ reply' = [put_nowait(reply, node_frame(node_name, update))
                    EXCEPT !.pc = IF next = "END" THEN "get_state" ELSE "stream"]

\* lines 108-120: graph.stream runs the node that is due and yields its update
StreamNode ==
    /\ reply.pc = "stream"
    /\ \/ /\ run.pc = "planner"
          /\ \E llm \in {LlmError(<<>>)} \cup {LlmSays(raw) : raw \in PlannerAnswers} :
                IF llm.exc # "" THEN StreamRaises(llm.exc)
                ELSE StreamEvent("planner", planner(state, llm.content), DB, used,
                                 "searcher")
       \/ /\ run.pc = "searcher"
          /\ \E found \in [DOMAIN state.plan -> SearchOutcomes],
                order \in Perms(DOMAIN state.plan) :
                StreamEvent("searcher", searcher(state, found, order), DB, used, "scraper")
       \/ /\ run.pc = "scraper"
          /\ IF run.scrape_concurrency <= 0 THEN StreamRaises("ValueError")
             ELSE \E order \in Perms(Range(batch(state, run.scrape_concurrency))),
                     ok \in SUBSET Range(batch(state, run.scrape_concurrency)) :
                     LET res == scraper(state, DB, used, order, ok, clock)
                     IN  StreamEvent("scraper", res.patch, res.db, res.used, "synthesiser")
       \/ /\ run.pc = "synthesiser"
          /\ \E llm \in {LlmError("")} \cup {LlmSays(text) : text \in SynthesiserAnswers} :
                IF llm.exc # "" THEN StreamRaises(llm.exc)
                ELSE StreamEvent("synthesiser", synthesiser(state, llm.content), DB, used,
                                 "evaluator")
       \/ /\ run.pc = "evaluator"
          /\ LET update == evaluator(state, run.agent_max_iterations)
             IN  StreamEvent("evaluator", update, DB, used,
                             route_evaluator(Merge(state, update)))
    /\ UNCHANGED <<ingVars, chainVars>>

\* lines 122-147: the final state, the Artifact node and the done frame
RunnerDone ==
    /\ reply.pc = "get_state"
    /\ IF state.report = ""
       THEN /\ reply' = [put_nowait(reply, done_frame(state, 0)) EXCEPT !.pc = "finally"]
            /\ UNCHANGED <<state, storeVars>>
       ELSE IF reply.fail = "create_node"
       THEN /\ reply' = [put_nowait(reply, error_frame("OperationalError"))
                            EXCEPT !.pc = "finally"]
            /\ UNCHANGED <<state, storeVars>>
       ELSE LET nid == fresh_id(used)
                res == create_node(DB, ReportTitle(state.goal), "Artifact",
                                   ArtifactMetadata(state), NULL, nid, clock)
            IN  /\ CommitAgent(res.db, used \cup {nid})
                /\ state' = [state EXCEPT !.artifact_id = nid]
                /\ reply' = [put_nowait(reply, done_frame(state, nid))
                                EXCEPT !.pc = "finally"]
    /\ run' = [run EXCEPT !.pc = "returned"]
    /\ UNCHANGED <<ingVars, chainVars>>

\* lines 152-154: the connection is closed and the sentinel is put
RunnerFinally ==
    /\ reply.pc = "finally"
    /\ reply' = [put_nowait(reply, PyNone) EXCEPT !.pc = "returned"]
    /\ UNCHANGED <<storeVars, ingVars, chainVars, agentVars>>

\* lines 170-174: the generator takes an item off the queue, and yields it or ends
ResearchGeneratorGet ==
    /\ reply.gen = "waiting"
    /\ reply.pending # <<>>
    /\ LET item == Head(reply.pending)
       IN  reply' = [reply EXCEPT !.pending = Tail(@),
                                  !.sent = IF item = PyNone THEN @ ELSE Append(@, item),
                                  !.gen = IF item = PyNone THEN "closed" ELSE "waiting"]
    /\ UNCHANGED <<storeVars, ingVars, chainVars, agentVars>>

(***************************************************************************)
(* backend/rag/chat.py, lines 144-160: the messages of the prompt.         *)
(***************************************************************************)
MaxHistory == 22

MAX_HISTORY_TURNS == 10

\* the role of the i-th entry of a history; an entry may lack its role
HistoryShapes == {"user first", "assistant first", "system third", "no role"}

history_role(shape, i) ==
    CASE shape = "user first" -> IF i % 2 = 1 THEN "user" ELSE "assistant"
      [] shape = "assistant first" -> IF i % 2 = 1 THEN "assistant" ELSE "user"
      [] shape = "system third" -> IF i % 3 = 0 THEN "system" ELSE "user"
      [] OTHER -> IF i % 2 = 1 THEN "" ELSE "assistant"

\* the histories a client sends: entry i has content i
Histories ==
    {[i \in 1..h |->
         IF history_role(shape, i) = "" THEN [type |-> "dict", content |-> i]
         ELSE [type |-> "dict", role |-> history_role(shape, i), content |-> i]] :
     h \in 0..MaxHistory, shape \in HistoryShapes}

\* history[-n:], n > 0
last_entries(history, n) ==
    SubSeq(history, Max(1, Len(history) - n + 1), Len(history))

\* the last _MAX_HISTORY_TURNS entries
trimmed_history_entries(history) == last_entries(history, MAX_HISTORY_TURNS)

\* line 150
trimmed_history(history) == last_entries(history, MAX_HISTORY_TURNS * 2)

\* lines 151-157
history_message(turn) ==
    IF dict_get(turn, "role", "user") = "assistant"
    THEN [type |-> "ai", content |-> dict_get(turn, "content", 0)]
    ELSE [type |-> "human", content |-> dict_get(turn, "content", 0)]

\* lines 147-160; the question has content 0
lc_messages(system_content, history, question) ==
    <<[type |-> "system", content |-> system_content]>>
    \o [i \in DOMAIN trimmed_history(history) |-> history_message(trimmed_history(history)[i])]
    \o <<[type |-> "human", content |-> question]>>

\* the prompt of one chat turn is built
BuildPrompt ==
    /\ reply = NoReply
    /\ \E history \in Histories, system_content \in {-1, -2} :
          reply' = [NoReply EXCEPT !.op = "lc_messages", !.text = history,
                                   !.result = lc_messages(system_content, history, 0)]
    /\ UNCHANGED <<storeVars, ingVars, chainVars, agentVars>>

vars == <<storeVars, ingVars, chainVars, agentVars, callVars>>

Init == InitStore /\ InitIngest /\ InitChain /\ InitAgent /\ InitCall

\* the graph: nodes and edges come and go
Next ==
    \/ Tick
    \/ CreateNode
    \/ CreateNodeWithId
    \/ DeleteNode
    \/ ConnectNodes

Spec == Init /\ [][Next]_vars

\* the rows of the nodes table are created, updated and deleted
NextUpdate ==
    \/ Tick
    \/ CreateNode
    \/ CreateNodeWithId
    \/ UpdateNode
    \/ DeleteNode

SpecUpdate == Init /\ [][NextUpdate]_vars

NextIngest ==
    \/ DeleteNode
    \/ IngestFetchFails
    \/ IngestCreateSource
    \/ IngestSourceFts
    \/ IngestEmbedFails
    \/ IngestCreateChunk
    \/ IngestChunkFts
    \/ IngestChunkVec
    \/ IngestChunkEdge

SpecIngest == Init /\ [][NextIngest]_vars

NextChain ==
    \/ ChainSearch
    \/ BraveSearch
    \/ SearXNGQueryInstance
    \/ DuckDuckGoAttempt

SpecChain == Init /\ [][NextChain]_vars

NextAgent ==
    \/ RunResearch
    \/ Planner
    \/ Searcher
    \/ Scraper
    \/ Synthesiser
    \/ Evaluator
    \/ PersistReport

SpecAgent == Init /\ [][NextAgent]_vars

\* the graph executor runs the node that is due, and run_research runs to its end
FairSpecAgent == SpecAgent /\ WF_vars(NextAgent)

NextSearch ==
    \/ FtsSearch
    \/ VectorSearch
    \/ HybridSearch

SpecSearch == InitSearch /\ [][NextSearch]_vars

NextProject ==
    \/ GetProjectNodes

SpecProject == InitProject /\ [][NextProject]_vars

NextChat ==
    \/ CreateProject
    \/ CreateConversation
    \/ AppendMessages
    \/ DeleteConversation
    \/ DeleteNode

SpecChat == Init /\ [][NextChat]_vars

NextChunker ==
    \/ ChunkTextCall

SpecChunker == Init /\ [][NextChunker]_vars

NextChatStream ==
    \/ ChatStream

SpecChatStream == InitSearch /\ [][NextChatStream]_vars

NextPool ==
    \/ SearcherSubmit
    \/ WorkerStart
    \/ SearchWorkerEnd
    \/ SearcherTake
    \/ SearcherReturn
    \/ ScraperSubmit
    \/ IngestFetch
    \/ IngestInsertNode
    \/ IngestCommit
    \/ IngestGetNode
    \/ IngestUpdateFts
    \/ ScraperTake
    \/ ScraperReturn

SpecPool == InitPool /\ [][NextPool]_vars

NextScraper ==
    \/ ScraperSubmit
    \/ WorkerStart
    \/ IngestFetch
    \/ IngestInsertNode
    \/ IngestCommit
    \/ IngestGetNode
    \/ IngestUpdateFts
    \/ ScraperTake
    \/ ScraperReturn

SpecScraper == InitScraper /\ [][NextScraper]_vars

NextSend ==
    \/ CreateProject
    \/ CreateConversation
    \/ AppendMessages
    \/ DeleteConversation
    \/ SendMessage
    \/ SendFrame

SpecSend == Init /\ [][NextSend]_vars

NextResearch ==
    \/ Research
    \/ RunnerGetConnection
    \/ RunnerInitDb
    \/ RunnerBuildGraph
    \/ StreamNode
    \/ RunnerDone
    \/ RunnerFinally
    \/ ResearchGeneratorGet

SpecResearch == Init /\ [][NextResearch]_vars

NextPrompt ==
    \/ BuildPrompt

SpecPrompt == Init /\ [][NextPrompt]_vars

\* the thread of _run_graph runs while it can, and so does the event loop
FairSpecResearch ==
    /\ SpecResearch
    /\ WF_vars(RunnerGetConnection \/ RunnerInitDb \/ RunnerBuildGraph \/ StreamNode
                   \/ RunnerDone \/ RunnerFinally)
    /\ WF_vars(Research \/ ResearchGeneratorGet)

(***************************************************************************)
(* Properties of the graph store.                                          *)
(***************************************************************************)
Triple(e) == <<e.source_id, e.target_id, e.relation_type>>

\* C1: every edge's source_id and target_id are ids of existing nodes, and
\* delete_node(n) leaves neither the node n nor any edge that has n as source
\* or as target.
C1_EdgeEndpointsExist ==
    /\ \A e \in edges : e.source_id \in DOMAIN nodes /\ e.target_id \in DOMAIN nodes
    /\ \A n \in NodeIds :
          LET after == delete_node(DB, n).db
          IN  n \notin DOMAIN after.nodes /\ get_edges(after, n) = {}

\* a delete_node call has just removed edges with the node, and nodes remain
C1_Witness ==
    /\ last.op = "delete_node"
    /\ last.edges_deleted > 0
    /\ nodes # <<>>

\* C2: for existing nodes s, t and every relation r, connect_nodes(s, t, r)
\* called twice leaves exactly one edge (s, t, r); the second call raises
\* nothing and changes neither the edge set nor the created_at of the first
\* edge, and the edges of the other relation types between s and t stay.
C2_ConnectTwiceOneEdge ==
    /\ \A e1, e2 \in edges : Triple(e1) = Triple(e2) => e1 = e2
    /\ \A s, t \in DOMAIN nodes, r \in Relations, later \in Times :
          later >= clock =>
             LET once == connect_nodes(DB, s, t, r, clock)
                 twice == connect_nodes(once.db, s, t, r, later)
             IN  /\ once.raised = "" /\ twice.raised = ""
                 /\ twice.db = once.db
                 /\ Cardinality({e \in twice.db.edges : Triple(e) = <<s, t, r>>}) = 1
                 /\ edges \subseteq once.db.edges

\* a repeated connect_nodes call returned without a change, at a time later than
\* the edge's created_at, while the same pair is also linked by another relation
C2_Witness ==
    /\ last.op = "connect_nodes" /\ last.raised = "" /\ ~last.changed
    /\ \E e1, e2 \in edges :
          /\ e1.source_id = e2.source_id /\ e1.target_id = e2.target_id
          /\ e1.relation_type # e2.relation_type
          /\ e1.created_at < clock

NodeColumns == {"id", "node_type", "title", "content_path", "metadata", "created_at", "updated_at"}
Allowed == {"title", "node_type", "content_path", "metadata"}

\* C3: update_node raises not-found for an unknown id and a validation error
\* when a keyword is outside {title, node_type, content_path, metadata} or no
\* keyword is given; a rejected call leaves the store unchanged; an accepted
\* call changes exactly the named fields and updated_at of that node.
C3_UpdateNodeContract ==
    \A id \in NodeIds, keys \in SUBSET UpdateKeys :
     \A m \in IF "metadata" \in keys THEN UserMetadata ELSE {PyNone} :
       LET kwargs == Kwargs(keys, m)
           res == update_node(DB, id, kwargs, clock)
           row == get_node(res.db, id)
           old == get_node(DB, id)
       IN  /\ id \notin DOMAIN nodes => res.raised = "ValueError: not found"
           /\ (id \in DOMAIN nodes /\ (keys = {} \/ ~(keys \subseteq Allowed)))
                 => res.raised \in {"ValueError: cannot update field",
                                    "ValueError: no valid fields"}
           /\ res.raised # "" => res.db = DB
           /\ (id \in DOMAIN nodes /\ keys # {} /\ keys \subseteq Allowed) =>
                 /\ res.raised = ""
                 /\ \A c \in keys : row[c] = kwargs[c]
                 /\ row.updated_at = clock
                 /\ \A c \in NodeColumns \ (keys \cup {"updated_at"}) : row[c] = old[c]
                 /\ DOMAIN res.db.nodes = DOMAIN nodes
                 /\ \A o \in DOMAIN nodes \ {id} : res.db.nodes[o] = nodes[o]
                 /\ res.db.edges = edges /\ res.db.nodes_vec = nodes_vec

\* an accepted update_node call has changed a title and refreshed updated_at
C3_Witness ==
    /\ last.op = "update_node" /\ last.raised = "" /\ last.changed
    /\ \E id \in DOMAIN nodes :
          nodes[id].title = "B" /\ nodes[id].updated_at > nodes[id].created_at

\* C4: the lexical index has exactly one row for each existing node id and no
\* row for an id that was deleted or never created.
C4_LexicalLockStep ==
    \A id \in NodeIds : FtsCount(nodes_fts, id) = IF id \in DOMAIN nodes THEN 1 ELSE 0

\* a node has been deleted while the body of another node's lexical row is filled
C4_Witness ==
    /\ used \ DOMAIN nodes # {}
    /\ \E r \in DOMAIN nodes_fts : r.content_body # ""

\* C5: every vector-index row is keyed by the id of an existing node, and every
\* Chunk node created by a completed ingestion has a vector-index row.
C5_VectorLockStep ==
    /\ \A id \in DOMAIN nodes_vec : id \in DOMAIN nodes
    /\ \A c \in ingested : c \in DOMAIN nodes => c \in DOMAIN nodes_vec

(***************************************************************************)
(* Properties of the web-search chain.                                     *)
(***************************************************************************)
\* C6: SearchProviderChain.search invokes its providers in list order, each at
\* most once; every provider before the last one invoked returned []; a
\* non-empty result is the list of the last provider invoked, unchanged, and
\* the result is [] exactly when every provider of the chain was invoked and
\* returned [] (an empty chain included).
C6_ChainFirstNonEmpty ==
    LET log == srch.log
        n == Len(srch.providers)
        AllEmpty == \A i \in DOMAIN log : log[i].urls = <<>> /\ log[i].raised = ""
    IN  /\ Len(log) <= n
        /\ \A i \in DOMAIN log : log[i].pos = i /\ log[i].name = srch.providers[i]
        /\ \A i \in DOMAIN log : i < Len(log) => log[i].urls = <<>> /\ log[i].raised = ""
        /\ srch.pc = "call" => AllEmpty /\ srch.pos = Len(log) + 1
        /\ srch.pc = "returned" =>
              /\ srch.result # <<>> => log # <<>> /\ log[Len(log)].urls = srch.result
              /\ srch.result = <<>> <=> (Len(log) = n /\ AllEmpty)

\* a chain of three providers has returned the URLs of its second provider
\* after an empty answer of the first, and the third was not invoked
C6_Witness ==
    /\ srch.pc = "returned"
    /\ Len(srch.providers) = 3
    /\ Len(srch.log) = 2
    /\ srch.log[1].urls = <<>>
    /\ srch.result # <<>>

\* C7: no provider raises, whatever the failure, so no exception escapes
\* SearchProviderChain.search.
C7_ProvidersNeverRaise ==
    /\ srch.pc # "raised"
    /\ \A i \in DOMAIN srch.log : srch.log[i].raised = ""

(***************************************************************************)
(* Properties of the research run.                                         *)
(***************************************************************************)
Artifacts == {id \in DOMAIN nodes \ run.nodes_before : nodes[id].node_type = "Artifact"}

RunOver == run.pc \in {"END", "returned"}

\* C8: a run in which no stage raises reaches END with status "done"; the
\* evaluator has set "done" exactly when findings is non-empty or iteration >=
\* agent_max_iterations, and has otherwise set "re-planning" and handed over to
\* the planner; the planner runs at most max(1, agent_max_iterations) times
\* and iteration is the number of its runs.
C8_RunReachesEnd ==
    /\ [](/\ state.status = "done" =>
                /\ RunOver
                /\ state.findings # <<>> \/ state.iteration >= run.agent_max_iterations
          /\ state.status = "re-planning" =>
                /\ run.pc \in {"planner", "raised"}
                /\ state.findings = <<>> /\ state.iteration < run.agent_max_iterations
          /\ RunOver => state.status = "done"
          /\ run.planner_runs <= Max(1, run.agent_max_iterations)
          /\ state.iteration = run.planner_runs)
    /\ (run.pc = "planner") ~> (run.pc = "raised" \/ (run.pc = "END" /\ state.status = "done"))

\* a run without findings has re-planned up to the limit and has ended there
C8_Witness ==
    /\ run.pc = "END"
    /\ state.findings = <<>>
    /\ state.iteration = run.agent_max_iterations
    /\ run.planner_runs >= 2

\* the run has returned after a planner that yielded queries, searches that
\* returned distinct URLs, ingestions that all succeeded and a non-empty report
HappyPath ==
    /\ run.pc = "returned"
    /\ run.planned /\ run.searches_ok /\ run.ingests_ok
    /\ state.report # ""

OneArtifactOfGoal ==
    /\ Cardinality(Artifacts) = 1
    /\ \A id \in Artifacts :
          get_node(DB, id).metadata.goal = state.goal /\ state.artifact_id = id

\* C9: after a happy-path run status is "done", iteration is 1, urls_scraped
\* has as many URLs as the unique URLs found, and exactly one Artifact node
\* was created, whose metadata goal is the goal of the run.
C9_HappyPathScrapesAll ==
    HappyPath =>
       /\ state.status = "done" /\ state.iteration = 1
       /\ Len(state.urls_scraped) = Len(state.urls_found)
       /\ OneArtifactOfGoal

\* C9, amended: after a happy-path run status is "done", iteration is 1,
\* urls_scraped holds the first min(unique URLs found, scrape_concurrency)
\* URLs found, and exactly one Artifact node was created, whose metadata goal
\* is the goal of the run.
C9_HappyPathScrapesBatch ==
    HappyPath =>
       /\ state.status = "done" /\ state.iteration = 1
       /\ Len(state.urls_scraped) = Min(Len(state.urls_found), run.scrape_concurrency)
       /\ Range(state.urls_scraped) =
             Range(SubSeq(state.urls_found, 1, Len(state.urls_scraped)))
       /\ OneArtifactOfGoal

\* a happy-path run has found more URLs than one scraper batch takes
C9_Witness ==
    /\ HappyPath
    /\ Len(state.urls_found) > run.scrape_concurrency
    /\ Cardinality(Artifacts) = 1

\* C10: a run whose planner yielded queries and whose findings stayed empty
\* ends, with agent_max_iterations = M >= 1, at iteration M with status
\* "done", an empty report and no Artifact node.
C10_NoFindingsNoReport ==
    (/\ run.pc = "returned"
     /\ run.planned
     /\ state.findings = <<>>
     /\ run.agent_max_iterations >= 1) =>
       /\ state.iteration = run.agent_max_iterations
       /\ state.status = "done"
       /\ state.report = ""
       /\ Artifacts = {}

\* C11: run_research creates exactly one Artifact node when the final state
\* has status "done" and a non-empty report, and none otherwise; the metadata
\* of the Artifact has the goal of the run, its final iteration and
\* |urls_scraped|, and artifact_id of the returned state is the id of that
\* node, or empty when there is none.
C11_ArtifactIffReport ==
    /\ run.pc # "returned" => Artifacts = {} /\ state.artifact_id = 0
    /\ run.pc = "returned" =>
          /\ (state.status = "done" /\ state.report # "") => Cardinality(Artifacts) = 1
          /\ ~(state.status = "done" /\ state.report # "") =>
                Artifacts = {} /\ state.artifact_id = 0
          /\ \A id \in Artifacts :
                LET md == get_node(DB, id).metadata
                IN  /\ md.goal = state.goal
                    /\ md.iterations = state.iteration
                    /\ md.sources_count = Len(state.urls_scraped)
                    /\ state.artifact_id = id

\* a run has returned with an Artifact that counts fewer sources than URLs found
C11_Witness ==
    /\ run.pc = "returned"
    /\ Artifacts # {}
    /\ state.urls_scraped # <<>>
    /\ Len(state.urls_scraped) < Len(state.urls_found)


\* C12: whenever a search is given a scope, the empty one included, every id it
\* returns is in the scope
C12_ResultsWithinScope ==
    (reply.op \in {"fts_search", "vector_search", "hybrid_search"} /\ reply.scope.type = "list")
        => Range(reply.result) \subseteq reply.scope.items

\* the embedded nodes of the scope of the last call (of the store when the
\* call had no scope)
EmbeddedInScope ==
    {id \in DOMAIN nodes \cap DOMAIN nodes_vec :
        reply.scope.type = "list" => id \in reply.scope.items}

\* C13: vector_search called without a scope or with a scope that has members
\* returns the top_k nearest embedded nodes of the scope, all of them when
\* there are fewer, in ascending distance
C13_NearestWithinScope ==
    (reply.op = "vector_search" /\ reply.scope # PyList({})) =>
        /\ Range(reply.result) \subseteq EmbeddedInScope
        /\ Len(reply.result) = Min(reply.top_k, Cardinality(EmbeddedInScope))
        /\ \A i, j \in DOMAIN reply.result :
              i < j => /\ reply.result[i] # reply.result[j]
                       /\ Distance(nodes_vec[reply.result[i]], reply.embedding)
                              <= Distance(nodes_vec[reply.result[j]], reply.embedding)
        /\ \A id \in EmbeddedInScope \ Range(reply.result) :
              \A i \in DOMAIN reply.result :
                  Distance(nodes_vec[reply.result[i]], reply.embedding)
                      <= Distance(nodes_vec[id], reply.embedding)

\* the ids fts_search and vector_search return for the arguments of the last
\* hybrid_search when they are asked for n rows each
UnionOfSearches(n) ==
    Range(fts_search(DB, reply.query, n, reply.scope, reply.bm25))
        \cup Range(vector_search(DB, reply.embedding, n, reply.scope, reply.tie))

NoDuplicates(seq) == \A i, j \in DOMAIN seq : seq[i] = seq[j] => i = j

\* C14 as stated: the ids hybrid_search returns are distinct, at most top_k, and
\* among the ids fts_search and vector_search return for the same top_k
C14_HybridWithinUnionOfTopK ==
    reply.op = "hybrid_search" =>
        /\ NoDuplicates(reply.result)
        /\ Len(reply.result) <= reply.top_k
        /\ Range(reply.result) \subseteq UnionOfSearches(reply.top_k)

\* C14: the ids hybrid_search returns are distinct, at most top_k, and among the
\* ids fts_search and vector_search return when asked for 2 * top_k rows
C14_HybridWithinUnionOfTwiceTopK ==
    reply.op = "hybrid_search" =>
        /\ NoDuplicates(reply.result)
        /\ Len(reply.result) <= reply.top_k
        /\ Range(reply.result) \subseteq UnionOfSearches(2 * reply.top_k)

\* a hybrid search has returned top_k ids, one of them found by neither search
\* within its first top_k rows
C14_Witness ==
    /\ reply.op = "hybrid_search"
    /\ Len(reply.result) = reply.top_k
    /\ \E id \in Range(reply.result) : id \notin UnionOfSearches(reply.top_k)

\* the score of id in the last hybrid_search, from the two lists it fused
ScoreOf(id) == RrfScore(reply.fts, reply.vec, reply.rrf_k, id)

\* a comes before b when the scores are equal: the better lexical rank first, a
\* lexical hit before a node only the vector search found, and two such nodes in
\* the order the vector search found them
TieOrder(a, b) ==
    LET fa == RankIn(reply.fts, a)
        fb == RankIn(reply.fts, b)
    IN  \/ fa > 0 /\ fb > 0 /\ fa < fb
        \/ fa > 0 /\ fb = 0
        \/ fa = 0 /\ fb = 0 /\ RankIn(reply.vec, a) < RankIn(reply.vec, b)

Before(a, b) == ScoreLess(ScoreOf(b), ScoreOf(a)) \/ (ScoreEq(ScoreOf(a), ScoreOf(b)) /\ TieOrder(a, b))

\* C15: hybrid_search returns the best top_k nodes by descending RRF score,
\* equal scores by lexical rank and then by first appearance; a node of both
\* lists comes before a node that only one list holds at the same or a worse rank
C15_HybridOrderedByRrf ==
    reply.op = "hybrid_search" =>
        LET found == Range(reply.fts) \cup Range(reply.vec)
            both == Range(reply.fts) \cap Range(reply.vec)
        IN  /\ Range(reply.result) \subseteq found
            /\ Len(reply.result) = Min(reply.top_k, Cardinality(found))
            /\ \A i, j \in DOMAIN reply.result :
                  i < j => Before(reply.result[i], reply.result[j])
            /\ \A id \in found \ Range(reply.result) :
                  \A i \in DOMAIN reply.result : Before(reply.result[i], id)
            /\ \A n \in both, m \in found \ both :
                  (/\ m \in Range(reply.result)
                   /\ \/ RankIn(reply.fts, m) >= RankIn(reply.fts, n) /\ m \in Range(reply.fts)
                      \/ RankIn(reply.vec, m) >= RankIn(reply.vec, n) /\ m \in Range(reply.vec))
                      => /\ n \in Range(reply.result)
                         /\ RankIn(reply.result, n) < RankIn(reply.result, m)

\* a hybrid search has returned two nodes of equal score, the lexical hit before
\* the node only the vector search found
C15_Witness ==
    /\ reply.op = "hybrid_search"
    /\ Len(reply.result) = 2
    /\ ScoreEq(ScoreOf(reply.result[1]), ScoreOf(reply.result[2]))
    /\ reply.result[1] \in Range(reply.fts)
    /\ reply.result[2] \notin Range(reply.fts)

RECURSIVE ReachedBy(_, _)
\* the nodes that exactly n edges lead to from the project of the last call,
\* each edge followed from its source to its target
ReachedBy(from, n) ==
    IF n = 0 THEN from
    ELSE ReachedBy({e.target_id : e \in {x \in edges : x.source_id \in from}}, n - 1)

\* C16: get_project_nodes returns, once each, the nodes other than the project
\* that between 1 and depth edges lead to from the project
C16_ProjectNodesReachable ==
    reply.op = "get_project_nodes" =>
        /\ NoDuplicates(reply.result)
        /\ Range(reply.result) =
              UNION {ReachedBy({reply.project}, n) : n \in 1..reply.depth} \ {reply.project}

\* the call has returned on a graph where an edge leads back into the project
\* and another one into a node it returned
C16_Witness ==
    /\ reply.op = "get_project_nodes"
    /\ reply.depth >= 2
    /\ Len(reply.result) >= 2
    /\ \E e \in edges : e.target_id = reply.project /\ e.source_id \in Range(reply.result)
    /\ \E e1, e2 \in edges :
          /\ e1.source_id = e2.target_id /\ e1.target_id = e2.source_id
          /\ {e1.source_id, e1.target_id} \subseteq Range(reply.result)

\* the Chunk nodes whose metadata names source as their source
ChunksOf(source) ==
    {c \in DOMAIN nodes :
        nodes[c].node_type = "Chunk" /\ json_loads(nodes[c].metadata).source_id = source}

\* C17: when an ingestion has raised and no other call was made on the store, the
\* store holds no Source of that ingestion with fewer Chunk nodes than the
\* chunker produced
C17_NoPartialSource ==
    (ing.pc = "raised" /\ nops = 0 /\ ing.source \in DOMAIN nodes)
        => Cardinality(ChunksOf(ing.source)) >= ing.total

\* the Chunk nodes whose source is no longer in the store
OrphanChunks ==
    {c \in DOMAIN nodes :
        /\ nodes[c].node_type = "Chunk"
        /\ json_loads(nodes[c].metadata).source_id \notin DOMAIN nodes}

\* C18: no Chunk node outlives its Source, and neither does a lexical or a vector
\* row of such a chunk
C18_DeleteSourceDeletesChunks ==
    /\ OrphanChunks = {}
    /\ \A row \in DOMAIN nodes_fts : row.id \notin OrphanChunks
    /\ \A id \in DOMAIN nodes_vec : id \notin OrphanChunks

\* the CONVERSATION_IN edges that leave node c
ConversationEdges(c) == {e \in edges : e.source_id = c /\ e.relation_type = CONV_RELATION}

\* C19: every Chat node has exactly one outgoing CONVERSATION_IN edge, and the
\* edge leads to a Project node of the store
C19_ChatBoundToProject ==
    \A c \in DOMAIN nodes :
        nodes[c].node_type = "Chat" =>
            /\ Cardinality(ConversationEdges(c)) = 1
            /\ \A e \in ConversationEdges(c) :
                  /\ e.target_id \in DOMAIN nodes
                  /\ nodes[e.target_id].node_type = "Project"

\* C20: every chunk chunk_text returns has at most chunk_size characters
C20_ChunksWithinSize ==
    reply.op = "chunk_text" =>
        \A i \in DOMAIN reply.result : Len(reply.result[i]) <= reply.chunk_size
(***************************************************************************)
(* Properties of the chat turn.                                            *)
(***************************************************************************)
\* the payloads of the frames of the turn, and whether a step raised
ChatEvents == [i \in DOMAIN reply.result |-> reply.result[i].data]
ChatRaised == reply.fail # "none" /\ (reply.fail = "scope" => reply.project # 0)
EventsOfKind(kind) == {i \in DOMAIN ChatEvents : ChatEvents[i].event = kind}

\* C21: in a chat turn in which nothing raises, the events are the non-empty
\* texts of the model as token events in the order of the model, then one
\* citation event with id, title and url of the retrieved nodes in the order of
\* retrieval, present exactly when a node was retrieved, then one done event,
\* which is the last event.
C21_TokensCitationDone ==
    (reply.op = "chat_stream" /\ ~ChatRaised) =>
        LET ev == ChatEvents
            said == SelectSeq(reply.chunks, LAMBDA t : t # "")
            n == Len(said)
            cited == IF reply.fts = <<>> THEN 0 ELSE 1
        IN  /\ Len(ev) = n + cited + 1
            /\ \A i \in 1..n : ev[i] = [event |-> "token", text |-> said[i]]
            /\ cited = 1 =>
                  /\ ev[n + 1].event = "citation"
                  /\ Len(ev[n + 1].nodes) = Len(reply.fts)
                  /\ \A i \in DOMAIN reply.fts :
                        LET id == reply.fts[i]
                            md == json_loads(nodes[id].metadata)
                        IN  ev[n + 1].nodes[i] =
                                [id |-> id, title |-> nodes[id].title,
                                 url |-> IF "url" \in DOMAIN md THEN md.url ELSE ""]
            /\ ev[Len(ev)] = [event |-> "done"]

\* a turn in which the model streamed an empty chunk and a text, and two nodes
\* were retrieved
C21_Witness ==
    /\ reply.op = "chat_stream" /\ ~ChatRaised
    /\ reply.chunks = <<"", "t">>
    /\ Len(reply.fts) = 2
    /\ Len(reply.result) = 3

\* C22: when a step of the turn raises (scope resolution, embedding, retrieval
\* or the stream of the model, tokens emitted or not), the last event is the one
\* error event, with the message of the exception, and there is no done event;
\* every complete stream has exactly one terminal event, done or error, and it
\* is the last event.
C22_OneTerminalEvent ==
    reply.op = "chat_stream" =>
        LET ev == ChatEvents
            terminal == EventsOfKind("done") \cup EventsOfKind("error")
        IN  /\ terminal = {Len(ev)}
            /\ ChatRaised =>
                  /\ ev[Len(ev)] = [event |-> "error", detail |-> ExcMessage(reply.fail)]
                  /\ EventsOfKind("done") = {}
                  /\ EventsOfKind("citation") = {}

\* the stream of the model raised after a token was emitted
C22_Witness ==
    /\ reply.op = "chat_stream"
    /\ reply.fail = "stream"
    /\ Len(reply.result) = 2
    /\ reply.result[1].data.event = "token"
    /\ reply.result[2].data.event = "error"

(***************************************************************************)
(* Properties of the retry loop of the scraping provider.                  *)
(***************************************************************************)
\* the call ended with a rate-limit signal: the exception of that name, or an
\* error outside the library whose text matches the pattern
RateLimitSignal(out) ==
    \/ out.exc = "RatelimitException"
    \/ out.exc = "Exception" /\ is_ratelimit(out.msg)

\* C23: DuckDuckGoProvider.search calls the scraper at most max_retries + 1
\* times; after the i-th rate-limit signal in a row, i = 0 .. max_retries - 1,
\* it sleeps base_delay * 2^i and calls again; with the retries used up it
\* returns [] and does not raise; on any other error it returns [] at once,
\* without a sleep or another call; on the first call that succeeds it returns
\* the URLs of that call.
C23_BackoffRetry ==
    LET h == srch.ddg
        n == Len(h.outs)
        slept == Len(h.sleeps)
    IN  /\ n <= srch.search_retry_max + 1
        /\ slept = IF h.ended THEN n - 1 ELSE n
        /\ \A i \in 1..slept :
              /\ RateLimitSignal(h.outs[i])
              /\ i - 1 < srch.search_retry_max
              /\ h.sleeps[i] = srch.search_retry_base_delay * 2^(i - 1)
        /\ h.ended =>
              /\ h.raised = ""
              /\ RateLimitSignal(h.outs[n]) => n = srch.search_retry_max + 1
              /\ h.urls = IF h.outs[n].exc = "" /\ h.outs[n].results.type = "list"
                          THEN LET hits == SelectSeq(h.outs[n].results.items,
                                                     LAMBDA r : "href" \in DOMAIN r)
                               IN  [i \in DOMAIN hits |-> hits[i].href]
                          ELSE <<>>

\* two rate-limit signals, two sleeps, and the third call succeeded
C23_Witness ==
    /\ srch.ddg.ended
    /\ Len(srch.ddg.outs) = 3
    /\ srch.ddg.sleeps = <<3, 6>>
    /\ srch.ddg.urls = <<"u3", "u1">>

(***************************************************************************)
(* Properties of the order of the stages.                                  *)
(***************************************************************************)
\* the stage after each stage but the evaluator, and the status each writes
NextStage ==
    [planner |-> "searcher", searcher |-> "scraper", scraper |-> "synthesiser",
     synthesiser |-> "evaluator"]
StatusWritten ==
    [planner |-> "searching", searcher |-> "scraping", scraper |-> "synthesising",
     synthesiser |-> "evaluating"]

\* C24: the stages of a research run execute in the order planner, searcher,
\* scraper, synthesiser, evaluator; only the evaluator is left otherwise, to END
\* when the status is "done" and back to the planner when it is not; the stages
\* write the statuses searching, scraping, synthesising, evaluating, and then
\* done or re-planning.
C24_StageOrder ==
    [][ /\ (run.pc \in DOMAIN NextStage /\ run'.pc # "raised") =>
              /\ run'.pc = NextStage[run.pc]
              /\ state'.status = StatusWritten[run.pc]
        /\ run.pc = "evaluator" =>
              /\ state'.status \in {"done", "re-planning"}
              /\ run'.pc = IF state'.status = "done" THEN "END" ELSE "planner"
        /\ run.pc = "idle" => run'.pc = "planner" ]_vars

\* the evaluator has sent the run back to the planner
C24_Witness ==
    /\ run.pc = "planner"
    /\ state.status = "re-planning"
    /\ state.iteration = 1

(***************************************************************************)
(* Properties of the order and the atomicity of the writes of an           *)
(* ingestion.                                                              *)
(***************************************************************************)
\* the nodes a step has created
Created == DOMAIN nodes' \ DOMAIN nodes

\* C26: within one ingestion the Chunk nodes are created with chunk_index 0, 1,
\* ..., n - 1 in this order, none left out and none repeated, and in every
\* state on the way each has_chunk edge leads from the Source node, which
\* exists, to a Chunk node, which exists.
C26_ChunksInOrder ==
    /\ [][\A c \in Created :
             nodes'[c].node_type = "Chunk" =>
                /\ Created = {c}
                /\ json_loads(nodes'[c].metadata).chunk_index = Cardinality(ing.made)
                /\ Cardinality(ing.made) < ing.total
                /\ ing'.made = ing.made \cup {c}]_vars
    /\ [](ing.pc = "done" => Cardinality(ing.made) = ing.total)
    /\ [](\A e \in edges :
             e.relation_type = "has_chunk" =>
                /\ e.source_id \in DOMAIN nodes /\ nodes[e.source_id].node_type = "Source"
                /\ e.target_id \in DOMAIN nodes /\ nodes[e.target_id].node_type = "Chunk"
                /\ json_loads(nodes[e.target_id].metadata).source_id = e.source_id)

\* the second chunk of an ingestion has been created and the first has its edge
C26_Witness ==
    /\ Cardinality(ing.made) = 2
    /\ \E c \in ing.made : json_loads(nodes[c].metadata).chunk_index = 1
    /\ \E e \in edges : e.relation_type = "has_chunk"

\* C27: in every committed state of an ingestion, which a concurrent reader
\* may see and which stays when the ingestion is cancelled or crashes there,
\* every Chunk node of the store has its text in the lexical index, its row in
\* the vector index and its has_chunk edge from its Source.
C27_ChunksComplete ==
    nops = 0 =>
        \A c \in DOMAIN nodes :
            nodes[c].node_type = "Chunk" =>
                LET md == json_loads(nodes[c].metadata)
                IN  /\ \E row \in DOMAIN nodes_fts :
                          row.id = c /\ row.content_body = md.text
                    /\ c \in DOMAIN nodes_vec
                    /\ \E e \in edges :
                          /\ e.source_id = md.source_id /\ e.target_id = c
                          /\ e.relation_type = "has_chunk"

(***************************************************************************)
(* Properties of the worker pools of the searcher and the scraper.         *)
(***************************************************************************)
\* the futures of a kind, and those of them whose call did not raise
Futures(kind) == {i \in DOMAIN run.pool.futures : run.pool.futures[i].kind = kind}
Succeeded(kind) == {i \in Futures(kind) : run.pool.futures[i].ret.raised = ""}
SearcherReturns == run.pc = "searcher" /\ run'.pc # "searcher"
ScraperReturns == run.pc = "scraper" /\ run.pool.stage = "ingest" /\ run'.pc # "scraper"

\* C25: whichever queries fail in the searcher and whichever ingestions fail in
\* the scraper, the stage is not aborted: the searcher returns status
\* "scraping" with the URLs of the queries that succeeded, and the scraper
\* returns status "synthesising" with every URL of the batch whose ingestion
\* succeeded in urls_scraped and its summary in findings, and with no URL whose
\* ingestion failed in urls_scraped.
C25_FailuresDoNotAbort ==
    [][ /\ SearcherReturns =>
              /\ run'.pc = "scraper"
              /\ state'.status = "scraping"
              /\ Range(state'.urls_found) =
                     UNION {Range(run.pool.futures[i].ret.urls) : i \in Succeeded("search")}
        /\ ScraperReturns =>
              /\ run'.pc = "synthesiser"
              /\ state'.status = "synthesising"
              /\ \A i \in Futures("ingest") :
                    (run.pool.futures[i].arg \in Range(state'.urls_scraped))
                        <=> i \in Succeeded("ingest")
              /\ Len(state'.findings) =
                     Len(state.findings) + Cardinality(Succeeded("ingest"))
              /\ \A k \in DOMAIN state'.findings :
                    k > Len(state.findings) => state'.findings[k] = Summary ]_vars

\* the scraper has taken every future of a batch of two, of which one ingestion
\* failed and one succeeded
C25_Witness ==
    /\ run.pc = "scraper" /\ run.pool.stage = "ingest"
    /\ Len(run.pool.collected) = 2
    /\ Cardinality(Succeeded("ingest")) = 1
    /\ Len(run.pool.urls) = 1

\* C28: the workers of the scraper write through the one connection without
\* touching each other's transactions: while a worker has inserted its node and
\* not yet left its `with conn:` block, no other worker's commit has committed
\* the node and no other worker's rollback has undone it, so that create_node
\* returns the node it inserted.
C28_WritesSerialised ==
    \A i \in Futures("ingest") :
        LET f == run.pool.futures[i]
        IN  /\ f.pc = "commit_node" =>
                  /\ f.nid \in DOMAIN nodes
                  /\ f.nid \notin DOMAIN run.pool.committed.nodes
            /\ f.ret.raised # "AttributeError"

\* C29: no ingestion worker of the scraper starts before every search worker of
\* the searcher has ended and the searcher has returned, and the workers of a
\* stage have all ended when the next stage begins.
C29_StagesDoNotOverlap ==
    /\ \A i \in Futures("ingest") :
          run.pool.futures[i].pc # "pending" =>
              /\ run.pc # "searcher"
              /\ \A j \in Futures("search") : run.pool.futures[j].pc = "done"
    /\ run.pc \in {"scraper", "synthesiser"} =>
          \A j \in Futures("search") : run.pool.futures[j].pc = "done"
    /\ run.pc = "synthesiser" =>
          \A i \in Futures("ingest") : run.pool.futures[i].pc = "done"

\* an ingestion worker is at work after three search workers have ended
C29_Witness ==
    /\ Cardinality(Futures("search")) = 3
    /\ \E i \in Futures("ingest") : run.pool.futures[i].pc = "insert"

\* the place where u first occurs in s
FirstPlace(s, u) == CHOOSE k \in DOMAIN s : s[k] = u /\ \A m \in 1..(k - 1) : s[m] # u

\* C30: in whatever order the search workers run and end, urls_found has no
\* duplicates, holds exactly the URLs returned by the queries whose search did
\* not raise, and lists them in the order of their first occurrence in the
\* results as the searcher took them from the workers.
C30_UrlsFoundInOrderTaken ==
    [][ SearcherReturns =>
           LET found == [i \in DOMAIN run.pool.futures |-> run.pool.futures[i].ret]
               taken == Collect(found, run.pool.collected)
               urls_found == state'.urls_found
           IN  /\ Range(run.pool.collected) = Futures("search")
               /\ \A a, b \in DOMAIN urls_found :
                     a < b => /\ urls_found[a] # urls_found[b]
                              /\ FirstPlace(taken, urls_found[a])
                                     < FirstPlace(taken, urls_found[b])
               /\ Range(urls_found) =
                      UNION {Range(found[i].urls) : i \in Succeeded("search")} ]_vars

\* the searcher has returned three URLs, the one of the first query last
C30_Witness ==
    /\ run.pc = "scraper" /\ run.pool.stage = "search"
    /\ state.plan = <<"q1", "q2", "q3">>
    /\ state.urls_found = <<"u2", "u3", "u1">>

\* C31: urls_found does not depend on the order in which the search workers
\* end: it lists the URLs of the queries in the order of the plan, a URL at the
\* place of the first query that returned it.
C31_UrlsFoundInPlanOrder ==
    [][ SearcherReturns =>
           LET found == [i \in DOMAIN run.pool.futures |-> run.pool.futures[i].ret]
               in_plan_order == [i \in DOMAIN state.plan |-> i]
           IN  state'.urls_found = Unique(Collect(found, in_plan_order), <<>>) ]_vars

\* C32: an execution of the scraper calls the ingestion at most
\* scrape_concurrency times, for the first URLs of urls_found that are not in
\* urls_scraped, in the order of urls_found; urls_scraped keeps what it held, in
\* place, and holds no URL twice.
C32_ScraperBatch ==
    /\ [](run.pc = "scraper" /\ run.pool.stage = "ingest" =>
             LET unscraped == SelectSeq(state.urls_found,
                                        LAMBDA u : u \notin Range(state.urls_scraped))
                 called == [i \in DOMAIN run.pool.futures |-> run.pool.futures[i].arg]
             IN  /\ Len(called) <= run.scrape_concurrency
                 /\ Len(called) = Min(run.scrape_concurrency, Len(unscraped))
                 /\ called = SubSeq(unscraped, 1, Len(called)))
    /\ [][ScraperReturns =>
             /\ Len(state.urls_scraped) <= Len(state'.urls_scraped)
             /\ SubSeq(state'.urls_scraped, 1, Len(state.urls_scraped)) = state.urls_scraped
             /\ NoDuplicates(state'.urls_scraped)]_vars

\* with u1 scraped before and a limit of one, the scraper has ingested u2 and
\* left u3
C32_Witness ==
    /\ run.pc = "synthesiser"
    /\ run.scrape_concurrency = 1
    /\ state.urls_found = <<"u1", "u2", "u3">>
    /\ state.urls_scraped = <<"u1", "u2">>
    /\ Len(run.pool.futures) = 1

\* C33: in a research run at most one execution of the scraper ingests a page,
\* since the evaluator ends the run once findings is not empty; urls_scraped
\* and findings have the same length, at most scrape_concurrency, however many
\* URLs were found and whatever agent_max_iterations is.
C33_OneScraperIngests ==
    /\ [](/\ Len(state.urls_scraped) = Len(state.findings)
          /\ Len(state.urls_scraped) <= run.scrape_concurrency)
    /\ [][(run.pc = "scraper" /\ state'.urls_scraped # state.urls_scraped) =>
             state.urls_scraped = <<>> /\ state.findings = <<>>]_vars

\* a run has ended whose second scraper ingested as many pages as the limit
\* allows, of the three found
C33_Witness ==
    /\ run.pc = "returned"
    /\ state.iteration = 2
    /\ Len(state.urls_found) = 3
    /\ run.scrape_concurrency = 2
    /\ Len(state.urls_scraped) = 2

(***************************************************************************)
(* The send-message endpoint                                               *)
(***************************************************************************)
SentEvents == [i \in DOMAIN reply.sent |-> reply.sent[i].data]

\* C34: in the response stream of the send-message endpoint a done frame is
\* the last frame sent: no error frame and no other frame follows it, also
\* when the conversation was deleted while the reply was streaming.
C34_DoneIsLastFrame ==
    reply.op = "send_message" =>
        \A i \in DOMAIN SentEvents :
            SentEvents[i].event = "done" => i = Len(SentEvents)

\* the conversations of the store and their transcripts
Conversations == {c \in DOMAIN nodes : nodes[c].node_type = "Chat"}
Transcript(c) == nodes[c].metadata.messages
TranscriptAfter(c) == nodes'[c].metadata.messages
IsPrefix(s, t) == Len(s) <= Len(t) /\ \A i \in DOMAIN s : t[i] = s[i]

RECURSIVE Concatenation(_)
Concatenation(events) ==
    IF events = <<>> THEN ""
    ELSE (IF Head(events).event = "token" THEN Head(events).text ELSE "")
         \o Concatenation(Tail(events))

\* the request is accepted: the user message is stored and no frame is sent
RequestAccepted ==
    reply.pc = "none" /\ reply'.pc = "start" =>
        /\ reply'.sent = <<>>
        /\ reply'.conv \in Conversations /\ reply'.conv \in Conversations'
        /\ TranscriptAfter(reply'.conv) =
               Append(Transcript(reply'.conv),
                      [role |-> "user", content |-> reply'.query, ts |-> clock])

\* a frame is sent while the conversation exists: the assistant message is
\* appended on the done frame when the token texts sent so far are not all
\* empty, and on no other frame
FrameSent ==
    reply.pc \in {"start", "stream"} /\ reply'.sent # reply.sent
    /\ reply.conv \in Conversations =>
        LET frame == reply'.sent[Len(reply.sent) + 1].data
            text == Concatenation([i \in DOMAIN reply.sent |-> reply.sent[i].data])
        IN  /\ reply.conv \in Conversations'
            /\ TranscriptAfter(reply.conv) =
                  IF frame.event = "done" /\ text # ""
                  THEN Append(Transcript(reply.conv),
                              [role |-> "assistant", content |-> text, ts |-> clock])
                  ELSE Transcript(reply.conv)

\* no request reorders or loses a stored message
TranscriptsGrow ==
    \A c \in Conversations \cap Conversations' :
        IsPrefix(Transcript(c), TranscriptAfter(c))

\* C35: a send-message request on an existing conversation appends the user
\* message before any frame is streamed; the assistant message is appended
\* once, when the done frame has been sent, with the concatenation of the
\* token texts in the order sent as its content; none is appended when the
\* stream ends with an error or carried no token text; and no stored message
\* is reordered or lost.
C35_TranscriptOfARequest ==
    /\ [][RequestAccepted /\ FrameSent /\ TranscriptsGrow]_vars
    /\ [](Cardinality({i \in DOMAIN SentEvents : SentEvents[i].event = "done"}) <= 1)

C35_Witness ==
    /\ reply.pc = "closed"
    /\ reply.conv \in Conversations
    /\ Len(Transcript(reply.conv)) >= 2
    /\ Transcript(reply.conv)[Len(Transcript(reply.conv))] =
           [role |-> "assistant", content |-> "ab", ts |-> clock]
    /\ SentEvents[Len(SentEvents)].event = "done"

(***************************************************************************)
(* The research request                                                    *)
(***************************************************************************)
\* the places of the sentinel among the items put on the queue
Sentinels == {i \in DOMAIN reply.result : reply.result[i] = PyNone}

\* C36: for every research request the runner eventually puts the None
\* sentinel on the queue, whether the run succeeds or fails at any step,
\* opening and initialising the store included.
C36_SentinelEnqueued == (reply.op = "research") ~> (Sentinels # {})

(***************************************************************************)
(* The prompt of a chat turn                                               *)
(***************************************************************************)
\* the entries of the history that the prompt carries, and their number
Carried(n) == Min(Len(reply.text), n)
CarriedEntry(n, i) == reply.text[Len(reply.text) - Carried(n) + i]

C38_CreateConversationAllOrNothing ==
    [][ (nops' # nops /\ last'.op = "create_conversation" /\ last'.raised # "") =>
            UNCHANGED <<nodes, edges, nodes_fts, nodes_vec>> ]_vars

(***************************************************************************)
(* The scope of a chat turn                                                *)
(***************************************************************************)
\* the ids of the nodes the citation event of the turn lists
Cited ==
    UNION {{ChatEvents[i].nodes[j].id : j \in DOMAIN ChatEvents[i].nodes} :
           i \in EventsOfKind("citation")}

\* C39: when a project_id is given to chat_stream, every node retrieved as
\* context and every node of the citation event is one of
\* get_project_nodes(project_id, 3), also when the project reaches no node,
\* in which case nothing is retrieved.
C39_ContextWithinProject ==
    (reply.op = "chat_stream" /\ reply.project # 0) =>
        LET members == Range(get_project_nodes(DB, reply.project, 3))
        IN  /\ reply.fail \in {"none", "stream"} => Range(reply.fts) \subseteq members
            /\ Cited \subseteq members

====
